---- MODULE Spec2Model ----
(***************************************************************************)
(* PocketRescue: the vegetation-index / risk-decision pipeline.            *)
(*                                                                         *)
(* The pure functions of the pipeline (risk classifier, score aggregator,  *)
(* intervention selector, state codec) are operators; each has its own     *)
(* specification whose Init draws the arguments and whose action applies   *)
(* the function.  The forecast provider is a state machine over the        *)
(* durable cache slot.                                                     *)
(*                                                                         *)
(* Number scales (exact decimal arithmetic on integers):                   *)
(*   vegetation index      hundredths          (0.05  -> 5)                *)
(*   precipitation (risk)  tenths of a mm      (5 mm  -> 50)               *)
(*   daily precipitation   thousandths of a mm (5.234 -> 5234)             *)
(*   daily temperature     tenths of a degree  (18.4  -> 184)              *)
(***************************************************************************)
EXTENDS Integers, Sequences, FiniteSets, TLC

VARIABLES
    pc,        \* "ready": arguments drawn, call not made; "done": call returned
    op,        \* name of the entry point the current specification exercises
    args,      \* arguments of the (last) call
    ret,       \* value returned by the (last) call
    slot,      \* localStorage['pocketRescue_forecast_cache']
    clock,     \* the wall clock read by new Date() / Date.now()
    lastLive,  \* history: the forecast returned by the last call that took the live path
    history    \* history: the action-planner calls of the run, oldest first

vars == <<pc, op, args, ret, slot, clock, lastLive, history>>

(***************************************************************************)
(* JavaScript values: tagged records, the tag is always compared first.    *)
(***************************************************************************)
Num(n) == [t |-> "num", v |-> n]
NaN == [t |-> "nan", v |-> 0]
PosInf == [t |-> "inf", v |-> 1]
NegInf == [t |-> "inf", v |-> -1]
Null == [t |-> "null", v |-> 0]
Undefined == [t |-> "undef", v |-> 0]
Str(s) == [t |-> "str", v |-> s]
Pending == [t |-> "pending", v |-> 0]

\* typeof x === 'number' (NaN and the infinities are numbers)
IsNumber(x) == x.t \in {"num", "nan", "inf"}
IsFinite(x) == x.t = "num"

\* a < b of two JavaScript numbers: false as soon as one side is NaN
Lt(a, b) ==
    IF a.t = "nan" \/ b.t = "nan" THEN FALSE
    ELSE IF a.t = "inf" THEN a.v < 0 /\ ~(b.t = "inf" /\ b.v < 0)
    ELSE IF b.t = "inf" THEN b.v > 0
    ELSE a.v < b.v

Gt(a, b) == Lt(b, a)

\* Math.round of the rational n/d, d > 0: the nearest integer, halves go up
Round(n, d) == (2 * n + d) \div (2 * d)

(***************************************************************************)
(* Risk classifier (actionPlanner.computeRiskScore).                       *)
(* index in hundredths, precipitation in tenths of a millimetre.           *)
(***************************************************************************)
CriticalIndex == 5       \* 0.05
LowIndex == 18           \* 0.18
ModerateIndex == 25      \* 0.25
GoodIndex == 35          \* 0.35
DroughtPrecip == 50      \* 5 mm
FloodPrecip == 400       \* 40 mm
WetPrecip == 300         \* 30 mm

computeRiskScore_wetIgnored(vegetationIndex, precipitationMm) ==
    IF Lt(vegetationIndex, Num(CriticalIndex)) THEN "HIGH"
    ELSE IF Lt(precipitationMm, Num(DroughtPrecip)) /\ Lt(vegetationIndex, Num(LowIndex)) THEN "HIGH"
    ELSE IF Gt(precipitationMm, Num(FloodPrecip)) /\ Lt(vegetationIndex, Num(LowIndex)) THEN "HIGH"
    ELSE IF Lt(vegetationIndex, Num(ModerateIndex)) THEN "MEDIUM"
    ELSE "LOW"

computeRiskScore_strictLost(vegetationIndex, precipitationMm) ==
    IF (~Gt(vegetationIndex, Num(CriticalIndex))) /\ vegetationIndex.t # "nan" THEN "HIGH"
    ELSE IF Lt(precipitationMm, Num(DroughtPrecip)) /\ Lt(vegetationIndex, Num(LowIndex)) THEN "HIGH"
    ELSE IF Gt(precipitationMm, Num(FloodPrecip)) /\ Lt(vegetationIndex, Num(LowIndex)) THEN "HIGH"
    ELSE IF Lt(vegetationIndex, Num(ModerateIndex))
            \/ (Gt(precipitationMm, Num(WetPrecip)) /\ Lt(vegetationIndex, Num(GoodIndex))) THEN "MEDIUM"
    ELSE "LOW"

computeRiskScore(vegetationIndex, precipitationMm) ==
    IF Lt(vegetationIndex, Num(CriticalIndex)) THEN "HIGH"
    ELSE IF Lt(precipitationMm, Num(DroughtPrecip)) /\ Lt(vegetationIndex, Num(LowIndex)) THEN "HIGH"
    ELSE IF Gt(precipitationMm, Num(FloodPrecip)) /\ Lt(vegetationIndex, Num(LowIndex)) THEN "HIGH"
    ELSE IF Lt(vegetationIndex, Num(ModerateIndex))
            \/ (Gt(precipitationMm, Num(WetPrecip)) /\ Lt(vegetationIndex, Num(GoodIndex))) THEN "MEDIUM"
    ELSE "LOW"

\* bounds of the argument grid of the risk classifier
BelowZero == 3
MaxIndex == 38
MaxPrecip == 405

IndexValues == {Num(i) : i \in (0 - BelowZero)..MaxIndex} \cup {NaN, PosInf, NegInf}
PrecipValues == {Num(p) : p \in 0..MaxPrecip} \cup {NaN, PosInf}

\* state shared by the specifications of the pure functions: the cache slot
\* is absent and the clock stands still
SlotAbsent == [k |-> "absent"]
NoForecast == [t |-> "none", v |-> 0]

Quiescent == slot = SlotAbsent /\ clock = 0 /\ lastLive = NoForecast /\ history = <<>>

InitRisk ==
    /\ pc = "ready"
    /\ op = "computeRiskScore"
    /\ args \in [index : IndexValues, precip : PrecipValues]
    /\ ret = Pending
    /\ Quiescent

CallComputeRiskScore ==
    /\ pc = "ready"
    /\ op = "computeRiskScore"
    /\ ret' = Str(computeRiskScore(args.index, args.precip))
    /\ pc' = "done"
    /\ UNCHANGED <<op, args, slot, clock, lastLive, history>>

NextRisk == CallComputeRiskScore

SpecRisk == InitRisk /\ [][NextRisk]_vars

RiskDone == pc = "done" /\ op = "computeRiskScore"

IdxBelow(n) == (args.index.t = "num" /\ args.index.v < n) \/ args.index = NegInf
PrecipBelow(n) == args.precip.t = "num" /\ args.precip.v < n
PrecipAbove(n) == (args.precip.t = "num" /\ args.precip.v > n) \/ args.precip = PosInf

C1_HighRegion ==
    IdxBelow(5) \/ (IdxBelow(18) /\ (PrecipBelow(50) \/ PrecipAbove(400)))

C1_MediumRegion ==
    ~C1_HighRegion /\ (IdxBelow(25) \/ (IdxBelow(35) /\ PrecipAbove(300)))

C1_Examples ==
    /\ args = [index |-> Num(5), precip |-> Num(200)] => ret = Str("MEDIUM")
    /\ args = [index |-> Num(15), precip |-> Num(50)] => ret = Str("MEDIUM")
    /\ args = [index |-> Num(12), precip |-> Num(400)] => ret = Str("MEDIUM")
    /\ args = [index |-> Num(4), precip |-> Num(200)] => ret = Str("HIGH")
    /\ args = [index |-> Num(17), precip |-> Num(49)] => ret = Str("HIGH")
    /\ args = [index |-> Num(17), precip |-> Num(401)] => ret = Str("HIGH")
    /\ args = [index |-> Num(25), precip |-> Num(300)] => ret = Str("LOW")
    /\ args = [index |-> Num(35), precip |-> Num(405)] => ret = Str("LOW")

IdxFrom(n) == args.index.t = "num" /\ args.index.v >= n

VegetationThreshold == 5     \* 0.05: indices[i] > 0.05 is a vegetation pixel

RECURSIVE SumWhere(_, _)
\* the sum of the values of the array for which veg(value) = wanted
SumWhere(indices, wanted) ==
    IF indices = <<>> THEN 0
    ELSE (IF (Head(indices) > VegetationThreshold) = wanted THEN Head(indices) ELSE 0)
             + SumWhere(Tail(indices), wanted)

RECURSIVE CountWhere(_, _)
CountWhere(indices, wanted) ==
    IF indices = <<>> THEN 0
    ELSE (IF (Head(indices) > VegetationThreshold) = wanted THEN 1 ELSE 0)
             + CountWhere(Tail(indices), wanted)

\* the piecewise score of the vegetation mean S / (100 * c), as a rational
VegetationScore(S, c) ==
    IF S < 10 * c THEN <<25 * c + S, c>>                   \* 30 + (mean - 0.05) * 100
    ELSE IF S < 20 * c THEN <<40 * c + 3 * S, 2 * c>>      \* 35 + (mean - 0.1) * 150
    ELSE IF S < 30 * c THEN <<10 * c + 2 * S, c>>          \* 50 + (mean - 0.2) * 200
    ELSE IF S < 40 * c THEN <<10 * c + 2 * S, c>>          \* 70 + (mean - 0.3) * 200
    ELSE IF S - 40 * c < 10 * c THEN <<50 * c + S, c>>     \* 90 + min((mean - 0.4) * 100, 10)
    ELSE <<100 * c, c>>

computeGlobalScore_noEmptyGuard(indices) ==
        LET vegetationSum == SumWhere(indices, TRUE)
            vegetationCount == CountWhere(indices, TRUE)
            nonVegetationSum == SumWhere(indices, FALSE)
            nonVegetationCount == CountWhere(indices, FALSE)
        IN  IF vegetationCount = 0 THEN
                \* nonVegMean = nonVegetationSum / (100 * nonVegetationCount)
                IF nonVegetationSum < -10 * nonVegetationCount THEN 0
                ELSE IF nonVegetationSum < 0 THEN 10
                ELSE 20
            ELSE
                LET score == VegetationScore(vegetationSum, vegetationCount)
                    \* vegetationRatio < 0.3: score *= 0.8
                    sparse == 10 * vegetationCount < 3 * Len(indices)
                    final == IF sparse THEN <<4 * score[1], 5 * score[2]>> ELSE score
                IN  Round(final[1], final[2])

computeGlobalScore(indices) ==
    IF Len(indices) = 0 THEN 0
    ELSE
        LET vegetationSum == SumWhere(indices, TRUE)
            vegetationCount == CountWhere(indices, TRUE)
            nonVegetationSum == SumWhere(indices, FALSE)
            nonVegetationCount == CountWhere(indices, FALSE)
        IN  IF vegetationCount = 0 THEN
                \* nonVegMean = nonVegetationSum / (100 * nonVegetationCount)
                IF nonVegetationSum < -10 * nonVegetationCount THEN 0
                ELSE IF nonVegetationSum < 0 THEN 10
                ELSE 20
            ELSE
                LET score == VegetationScore(vegetationSum, vegetationCount)
                    \* vegetationRatio < 0.3: score *= 0.8
                    sparse == 10 * vegetationCount < 3 * Len(indices)
                    final == IF sparse THEN <<4 * score[1], 5 * score[2]>> ELSE score
                IN  Round(final[1], final[2])

RECURSIVE Sum(_)
Sum(indices) == IF indices = <<>> THEN 0 ELSE Head(indices) + Sum(Tail(indices))

\* the mean-rescale variant kept beside the test file: round(((mean + 1) / 2) * 100)
computeGlobalScoreMean(indices) ==
    IF Len(indices) = 0 THEN 0
    ELSE Round(Sum(indices) + 100 * Len(indices), 2 * Len(indices))

\* bounds of the index arrays
MaxPixels == 4
IndexGrid == {-100, -20, -5, 0, 5, 10, 33, 50, 100}

IndexArrays == UNION {[1..n -> IndexGrid] : n \in 0..MaxPixels}

InitScore ==
    /\ pc = "ready"
    /\ op = "computeGlobalScore"
    /\ args \in IndexArrays
    /\ ret = Pending
    /\ Quiescent

CallComputeGlobalScore ==
    /\ pc = "ready"
    /\ op = "computeGlobalScore"
    /\ ret' = Num(computeGlobalScore(args))
    /\ pc' = "done"
    /\ UNCHANGED <<op, args, slot, clock, lastLive, history>>

NextScore == CallComputeGlobalScore

SpecScore == InitScore /\ [][NextScore]_vars

ScoreDone == pc = "done" /\ op = "computeGlobalScore"

\* C2: for every non-empty array of index values in [-1,1], computeGlobalScore
\* returns round(((mean + 1) / 2) * 100) with mean the arithmetic mean of all
\* values; [0.5,0.5] gives 75, [-1] gives 0, [0] gives 50 and [1] gives 100.
C2_MeanRescale ==
    (ScoreDone /\ Len(args) > 0) =>
        /\ ret = Num(Round(Sum(args) + 100 * Len(args), 2 * Len(args)))
        /\ args = <<50, 50>> => ret = Num(75)
        /\ args = <<-100>> => ret = Num(0)
        /\ args = <<0>> => ret = Num(50)
        /\ args = <<100>> => ret = Num(100)

\* C16: for every index array with values in [-1,1], computeGlobalScore returns
\* an integer between 0 and 100 inclusive, and for the empty array it returns 0.
C16_ScoreInRange ==
    ScoreDone =>
        /\ ret.t = "num"
        /\ ret.v \in 0..100
        /\ Len(args) = 0 => ret = Num(0)

C16_Witness == ScoreDone /\ args = <<>> /\ ret = Num(0)

\* bound of the arrays that are scored in pairs
MaxPairPixels == 2

\* pairs of index arrays of equal length, a below b at every pixel
PairGrid == {-100, 0, 10, 33, 100}

OrderedPairs ==
    UNION {{[a |-> x, b |-> y] : x, y \in [1..n -> PairGrid]} : n \in 0..MaxPairPixels}

InitScorePair ==
    /\ pc = "ready"
    /\ op = "computeGlobalScore"
    /\ args \in {pair \in OrderedPairs : \A k \in 1..Len(pair.a) : pair.a[k] <= pair.b[k]}
    /\ ret = Pending
    /\ Quiescent

\* the score of a field before and after index values were raised
CallComputeGlobalScoreTwice ==
    /\ pc = "ready"
    /\ op = "computeGlobalScore"
    /\ args \in OrderedPairs
    /\ ret' = [a |-> Num(computeGlobalScore(args.a)), b |-> Num(computeGlobalScore(args.b))]
    /\ pc' = "compared"
    /\ UNCHANGED <<op, args, slot, clock, lastLive, history>>

NextScorePair == CallComputeGlobalScoreTwice

SpecScorePair == InitScorePair /\ [][NextScorePair]_vars

\* C30: computeGlobalScore is monotone in the index values: for any two index
\* arrays a and b of equal length with values in [-1,1] and a[k] <= b[k] for
\* every k, computeGlobalScore(a) <= computeGlobalScore(b).
C30_Monotone ==
    (pc = "compared" /\ \A k \in 1..Len(args.a) : args.a[k] <= args.b[k])
        => ret.a.v <= ret.b.v

(***************************************************************************)
(* Vegetation indices (processor/index.js computeExG, computeNDVIProxy).   *)
(* A pixel buffer is the sequence of its channel bytes R, G, B, A, ...     *)
(* An index value is the exact rational n / d with epsilon = 1/10000, i.e. *)
(* numerator and denominator are both multiplied by 10000; the Float32     *)
(* rounding of the stored value is monotone and keeps -1, 0 and 1.         *)
(***************************************************************************)
EpsilonInverse == 10000      \* epsilon = 0.0001

Ratio(n, d) == [t |-> "ratio", n |-> n, d |-> d]

\* pixelData[i], i counted from 0: undefined past the end
Channel(pixelData, i) == IF i < Len(pixelData) THEN Num(pixelData[i + 1]) ELSE Undefined

\* new Float32Array(length): the length is truncated to an integer, elements are 0
TypedLength_roundedUp(length, perPixel) == (length + perPixel - 1) \div perPixel

TypedLength(length, perPixel) == length \div perPixel

Float32Array(n) == [k \in 1..n |-> Ratio(0, 1)]

\* array[index] = value of a typed array: a write past the end is ignored
Store(array, index, value) ==
    IF index < Len(array) THEN [array EXCEPT ![index + 1] = value] ELSE array

ExGValue_noEpsilon(r, g, b) ==
    IF r.t # "num" \/ g.t # "num" \/ b.t # "num" THEN NaN
    ELSE Ratio(EpsilonInverse * (2 * g.v - r.v - b.v),
               EpsilonInverse * (2 * g.v + r.v + b.v))

\* (2 * g - r - b) / (2 * g + r + b + epsilon)
ExGValue(r, g, b) ==
    IF r.t # "num" \/ g.t # "num" \/ b.t # "num" THEN NaN
    ELSE Ratio(EpsilonInverse * (2 * g.v - r.v - b.v),
               EpsilonInverse * (2 * g.v + r.v + b.v) + 1)

\* (g - r) / (g + r + epsilon)
NDVIValue(r, g) ==
    IF r.t # "num" \/ g.t # "num" THEN NaN
    ELSE Ratio(EpsilonInverse * (g.v - r.v), EpsilonInverse * (g.v + r.v) + 1)

RECURSIVE ExGLoop(_, _, _)
\* for (let i = 0; i < pixelData.length; i += 4) exgValues[i / 4] = ...
ExGLoop(pixelData, i, exgValues) ==
    IF ~(i < Len(pixelData)) THEN exgValues
    ELSE ExGLoop(pixelData, i + 4,
                 Store(exgValues, i \div 4,
                       ExGValue(Channel(pixelData, i), Channel(pixelData, i + 1),
                                Channel(pixelData, i + 2))))

computeExG(pixelData) ==
    ExGLoop(pixelData, 0, Float32Array(TypedLength(Len(pixelData), 4)))

RECURSIVE NDVILoop(_, _, _)
NDVILoop(pixelData, i, ndviValues) ==
    IF ~(i < Len(pixelData)) THEN ndviValues
    ELSE NDVILoop(pixelData, i + 4,
                  Store(ndviValues, i \div 4,
                        NDVIValue(Channel(pixelData, i), Channel(pixelData, i + 1))))

computeNDVIProxy(pixelData) ==
    NDVILoop(pixelData, 0, Float32Array(TypedLength(Len(pixelData), 4)))

\* bound of the pixel buffers
MaxBufferLen == 6

\* channel bytes of the buffers of any length, and of the single-pixel buffers
ChannelValues == {0, 128, 255}
PixelChannelValues == {0, 1, 2, 127, 128, 254, 255}

PixelBuffers ==
    UNION {[1..n -> ChannelValues] : n \in 0..MaxBufferLen}
        \cup {<<r, g, b, 255>> : r \in PixelChannelValues, g \in PixelChannelValues,
                                 b \in PixelChannelValues}

InitIndex ==
    /\ pc = "ready"
    /\ op \in {"computeExG", "computeNDVIProxy"}
    /\ args \in PixelBuffers
    /\ ret = Pending
    /\ Quiescent

CallComputeExG ==
    /\ pc = "ready"
    /\ op = "computeExG"
    /\ ret' = computeExG(args)
    /\ pc' = "done"
    /\ UNCHANGED <<op, args, slot, clock, lastLive, history>>

CallComputeNDVIProxy ==
    /\ pc = "ready"
    /\ op = "computeNDVIProxy"
    /\ ret' = computeNDVIProxy(args)
    /\ pc' = "done"
    /\ UNCHANGED <<op, args, slot, clock, lastLive, history>>

NextIndex == CallComputeExG \/ CallComputeNDVIProxy

SpecIndex == InitIndex /\ [][NextIndex]_vars

IndexDone == pc = "done" /\ op \in {"computeExG", "computeNDVIProxy"}

\* the value is a finite number of [-1, 1]
InUnitRange(x) == x.t = "ratio" /\ x.d > 0 /\ (0 - x.d) <= x.n /\ x.n <= x.d

\* C18: for every pixel with R, G, B each in 0..255, the ExG value
\* (2G - R - B) / (2G + R + B + 0.0001) and the NDVI-proxy value
\* (G - R) / (G + R + 0.0001) are finite and lie in [-1, 1], including the pixel
\* with all channels 0, where the denominator is 0.0001 and not 0.
C18_IndexInUnitRange ==
    IndexDone =>
        /\ \A k \in 1..Len(ret) : InUnitRange(ret[k])
        /\ \A k \in 1..Len(ret) :
               (args[4 * k - 3] = 0 /\ args[4 * k - 2] = 0 /\ args[4 * k - 1] = 0)
                   => ret[k] = Ratio(0, 1)

C18_Witness ==
    /\ IndexDone /\ op = "computeExG"
    /\ args = <<0, 0, 0, 255>> /\ ret = <<Ratio(0, 1)>>

\* the closed forms of the two indices, from the channels of one pixel
ExGOf(R, G, B) ==
    Ratio(EpsilonInverse * (2 * G - R - B), EpsilonInverse * (2 * G + R + B) + 1)
NDVIOf(R, G) == Ratio(EpsilonInverse * (G - R), EpsilonInverse * (G + R) + 1)

\* C19: for every pixel buffer, computeExG and computeNDVIProxy each return an
\* array of exactly floor(length / 4) values whose k-th value is computed only
\* from the channels of pixel k (pixel order preserved, alpha ignored), and they
\* leave the input buffer unchanged.
C19_OneValuePerPixel ==
    [][(pc = "ready" /\ op \in {"computeExG", "computeNDVIProxy"}) =>
        /\ args' = args
        /\ Len(ret') = Len(args) \div 4
        /\ \A k \in 1..Len(ret') :
               ret'[k] = IF op = "computeExG"
                         THEN ExGOf(args[4 * k - 3], args[4 * k - 2], args[4 * k - 1])
                         ELSE NDVIOf(args[4 * k - 3], args[4 * k - 2])]_vars

\* a buffer of one pixel and a half
C19_Witness ==
    /\ IndexDone /\ op = "computeNDVIProxy"
    /\ args = <<0, 255, 0, 128, 255, 0>> /\ ret = <<Ratio(2550000, 2550001)>>

(***************************************************************************)
(* Coordinate validation (geolocationValidator.js validateGeolocation).    *)
(* Coordinates in whole degrees.                                           *)
(***************************************************************************)
MaxLatitude == 90
MaxLongitude == 180

Result(valid, message) == [valid |-> valid, message |-> message]

validateGeolocation_exclusiveBounds(latitude, longitude) ==
    IF ~IsNumber(latitude) \/ ~IsNumber(longitude) THEN
        Result(FALSE, Str("Latitude and longitude must be numbers."))
    ELSE IF ~IsFinite(latitude) \/ ~IsFinite(longitude) THEN
        Result(FALSE, Str("Latitude and longitude must be finite numbers."))
    ELSE IF ~Gt(latitude, Num(0 - MaxLatitude)) \/ ~Lt(latitude, Num(MaxLatitude)) THEN
        Result(FALSE, Str("Latitude must be between -90 and 90."))
    ELSE IF ~Gt(longitude, Num(0 - MaxLongitude)) \/ ~Lt(longitude, Num(MaxLongitude)) THEN
        Result(FALSE, Str("Longitude must be between -180 and 180."))
    ELSE Result(TRUE, Undefined)

validateGeolocation(latitude, longitude) ==
    IF ~IsNumber(latitude) \/ ~IsNumber(longitude) THEN
        Result(FALSE, Str("Latitude and longitude must be numbers."))
    ELSE IF ~IsFinite(latitude) \/ ~IsFinite(longitude) THEN
        Result(FALSE, Str("Latitude and longitude must be finite numbers."))
    ELSE IF Lt(latitude, Num(0 - MaxLatitude)) \/ Gt(latitude, Num(MaxLatitude)) THEN
        Result(FALSE, Str("Latitude must be between -90 and 90."))
    ELSE IF Lt(longitude, Num(0 - MaxLongitude)) \/ Gt(longitude, Num(MaxLongitude)) THEN
        Result(FALSE, Str("Longitude must be between -180 and 180."))
    ELSE Result(TRUE, Undefined)

\* the arguments: degrees around the limits, the non-finite numbers, non-numbers
Degrees(limit) ==
    {0 - limit - 1, 0 - limit, 1 - limit, 0 - MaxLatitude - 1, -1, 0, 1,
     MaxLatitude + 1, limit - 1, limit, limit + 1}
NotDegrees == {NaN, PosInf, NegInf, Str("45"), Null, Undefined}

LatitudeInputs == {Num(d) : d \in Degrees(MaxLatitude)} \cup NotDegrees
LongitudeInputs == {Num(d) : d \in Degrees(MaxLongitude)} \cup NotDegrees

InitGeolocation ==
    /\ pc = "ready"
    /\ op = "validateGeolocation"
    /\ args \in [lat : LatitudeInputs, lon : LongitudeInputs]
    /\ ret = Pending
    /\ Quiescent

CallValidateGeolocation ==
    /\ pc = "ready"
    /\ op = "validateGeolocation"
    /\ ret' = validateGeolocation(args.lat, args.lon)
    /\ pc' = "done"
    /\ UNCHANGED <<op, args, slot, clock, lastLive, history>>

NextGeolocation == CallValidateGeolocation

SpecGeolocation == InitGeolocation /\ [][NextGeolocation]_vars

GeolocationDone == pc = "done" /\ op = "validateGeolocation"

\* x is a finite number of [-limit, limit]
WithinLimit(x, limit) == x.t = "num" /\ (0 - limit) <= x.v /\ x.v <= limit

\* x is a number (not NaN) outside [-limit, limit]
OutOfRange(x, limit) == x.t = "inf" \/ (x.t = "num" /\ (x.v < 0 - limit \/ x.v > limit))

MessagesNamingLatitude ==
    {"Latitude and longitude must be numbers.",
     "Latitude and longitude must be finite numbers.",
     "Latitude must be between -90 and 90."}

MessagesNamingLongitude ==
    {"Latitude and longitude must be numbers.",
     "Latitude and longitude must be finite numbers.",
     "Longitude must be between -180 and 180."}

\* C20: validateGeolocation(lat, lon) returns valid = true if and only if both
\* arguments are finite numbers with -90 <= lat <= 90 and -180 <= lon <= 180
\* (bounds inclusive); otherwise it returns valid = false with a message.  The
\* message names Latitude when lat is out of range, and names Longitude when
\* lat is in range and lon is out of range.
C20_ValidIffInRange ==
    GeolocationDone =>
        /\ ret.valid = (WithinLimit(args.lat, 90) /\ WithinLimit(args.lon, 180))
        /\ ~ret.valid => (ret.message.t = "str" /\ ret.message.v # "")
        /\ OutOfRange(args.lat, 90) => ret.message.v \in MessagesNamingLatitude
        /\ (WithinLimit(args.lat, 90) /\ OutOfRange(args.lon, 180))
               => ret.message.v \in MessagesNamingLongitude

C20_Witness ==
    /\ GeolocationDone
    /\ args = [lat |-> Num(90), lon |-> Num(-180)]
    /\ ret.valid

(***************************************************************************)
(* Intervention selector (actionPlanner.selectInterventions).              *)
(* A text is a sequence of words, the empty text is <<>>.  Objects are     *)
(* read with JavaScript's property lookup: an own key first, then the      *)
(* keys every object inherits from Object.prototype.                       *)
(***************************************************************************)
Arr(items) == [t |-> "arr", v |-> items]
Fn(name) == [t |-> "fn", v |-> name]

CropTypes == {"wheat", "barley", "maize", "sunflower", "potato", "vegetables", "orchard"}
RiskLevels == {"HIGH", "MEDIUM", "LOW"}

\* keys found on every object literal through its prototype
ObjectPrototypeKeys == {"constructor", "toString"}

\* !x
Falsy(x) ==
    \/ x.t \in {"undef", "null", "nan"}
    \/ (x.t = "num" /\ x.v = 0)
    \/ (x.t = "str" /\ x.v = "")

\* the lookup table heuristics.json: every supported crop has an entry of three
\* interventions for each of HIGH, MEDIUM and LOW
heuristics(cropType, riskLevel) ==
    Arr([i \in 1..3 |-> [action |-> <<cropType, riskLevel, "action", i>>,
                         timing |-> <<cropType, riskLevel, "timing", i>>]])

\* obj[key] for an object literal whose own keys are ownKeys
Inherited(key) == IF key \in ObjectPrototypeKeys THEN Fn(key) ELSE Undefined

\* heuristics[cropType]
CropEntry(cropType) ==
    IF cropType \in CropTypes THEN [t |-> "crop", v |-> cropType]
    ELSE Inherited(cropType)

\* heuristics[cropType][riskLevel], heuristics[cropType] being truthy
RiskEntry(entry, riskLevel) ==
    IF entry.t = "crop" THEN
        IF riskLevel \in RiskLevels THEN heuristics(entry.v, riskLevel)
        ELSE Inherited(riskLevel)
    ELSE \* a function inherited from Object.prototype
        IF riskLevel = "name" THEN Str(entry.v)
        ELSE IF riskLevel = "length" THEN Num(1)
        ELSE Inherited(riskLevel)

defaults(riskLevel) ==
    IF riskLevel = "HIGH" THEN
        Arr(<<[action |-> <<"Increase monitoring frequency">>, timing |-> <<"immediately">>],
              [action |-> <<"Scout for pest and disease damage">>, timing |-> <<"within 1 day">>],
              [action |-> <<"Plan intervention strategy">>, timing |-> <<"within 2 days">>]>>)
    ELSE IF riskLevel = "MEDIUM" THEN
        Arr(<<[action |-> <<"Monitor field conditions regularly">>, timing |-> <<"every 2 days">>],
              [action |-> <<"Scout for pest and disease activity">>, timing |-> <<"within 3 days">>],
              [action |-> <<"Plan management actions">>, timing |-> <<"within 1 week">>]>>)
    ELSE IF riskLevel = "LOW" THEN
        Arr(<<[action |-> <<"Continue routine field monitoring">>, timing |-> <<"weekly">>],
              [action |-> <<"Document field conditions">>, timing |-> <<"within 1 week">>],
              [action |-> <<"Plan next management step">>, timing |-> <<"within 2 weeks">>]>>)
    ELSE Inherited(riskLevel)

\* defaults[riskLevel] || defaults['LOW']
getDefaultInterventions(riskLevel) ==
    IF Falsy(defaults(riskLevel)) THEN defaults("LOW") ELSE defaults(riskLevel)

selectInterventions(cropType, riskLevel) ==
    IF Falsy(CropEntry(cropType)) THEN getDefaultInterventions(riskLevel)
    ELSE IF Falsy(RiskEntry(CropEntry(cropType), riskLevel)) THEN
        IF Falsy(RiskEntry(CropEntry(cropType), "LOW")) THEN getDefaultInterventions("LOW")
        ELSE RiskEntry(CropEntry(cropType), "LOW")
    ELSE RiskEntry(CropEntry(cropType), riskLevel)

\* the strings handed to the selector: the supported keys and other strings
CropInputs == CropTypes \cup {"unknown_crop", "", "constructor"}
RiskInputs == RiskLevels \cup {"UNKNOWN", "", "low", "constructor", "toString", "name"}

InitSelect ==
    /\ pc = "ready"
    /\ op = "selectInterventions"
    /\ args \in [cropType : CropInputs, riskLevel : RiskInputs]
    /\ ret = Pending
    /\ Quiescent

CallSelectInterventions ==
    /\ pc = "ready"
    /\ op = "selectInterventions"
    /\ ret' = selectInterventions(args.cropType, args.riskLevel)
    /\ pc' = "done"
    /\ UNCHANGED <<op, args, slot, clock, lastLive, history>>

NextSelect == CallSelectInterventions

SpecSelect == InitSelect /\ [][NextSelect]_vars

SelectDone == pc = "done" /\ op = "selectInterventions"

\* C3: for every crop identifier and every risk-level string, selectInterventions
\* returns a sequence of exactly 3 records, each with a non-empty action and a
\* non-empty timing.
C3_ThreeInterventions ==
    SelectDone =>
        /\ ret.t = "arr"
        /\ Len(ret.v) = 3
        /\ \A i \in 1..3 : ret.v[i].action # <<>> /\ ret.v[i].timing # <<>>

\* C13: selectInterventions resolves lookup misses by this chain: crop absent
\* from the table -> the default entry of the risk level (the default LOW entry
\* when the risk level is not in the default table); crop present but risk level
\* absent for it -> that crop's LOW entry; crop and risk level both present ->
\* the table entry itself.
C13_FallbackChain ==
    SelectDone =>
        ret = IF args.cropType \notin CropTypes
              THEN (IF args.riskLevel \in RiskLevels THEN defaults(args.riskLevel)
                    ELSE defaults("LOW"))
              ELSE IF args.riskLevel \notin RiskLevels THEN heuristics(args.cropType, "LOW")
              ELSE heuristics(args.cropType, args.riskLevel)

(***************************************************************************)
(* Risk summary and complete assessment (actionPlanner.generateRiskSummary *)
(* and computeRiskAssessment).  A text is the sequence of its lines and of  *)
(* the "\n" separators between them, as the template literal puts them.    *)
(***************************************************************************)
\* `${line1}\n${line2}\n${line3}`
Template(line1, line2, line3) == <<line1, "\n", line2, "\n", line3>>

generateRiskSummary_droughtFirst(riskLevel, vegetationIndex, precipitationMm) ==
    IF riskLevel = "HIGH" THEN
        IF Lt(precipitationMm, Num(DroughtPrecip)) /\ Lt(vegetationIndex, Num(LowIndex)) THEN
            Template("SHORT-TERM DROUGHT RISK: HIGH", "Vegetation stress detected.",
                     "Prioritize irrigation.")
        ELSE IF Lt(vegetationIndex, Num(CriticalIndex)) THEN
            Template("CRITICAL VEGETATION STRESS: HIGH", "Immediate intervention required.",
                     "Prioritize irrigation and nutrient support.")
        ELSE IF Gt(precipitationMm, Num(FloodPrecip)) /\ Lt(vegetationIndex, Num(LowIndex)) THEN
            Template("FLOOD/STRESS RISK: HIGH", "Excessive moisture with weak vegetation.",
                     "Monitor for disease and drainage issues.")
        ELSE Template("", "", "")
    ELSE IF riskLevel = "MEDIUM" THEN
        Template("MODERATE RISK: MEDIUM", "Vegetation shows some stress indicators.",
                 "Monitor closely and plan interventions.")
    ELSE
        Template("FIELD CONDITIONS: GOOD", "Vegetation health is satisfactory.",
                 "Continue routine field management.")

generateRiskSummary(riskLevel, vegetationIndex, precipitationMm) ==
    IF riskLevel = "HIGH" THEN
        IF Lt(vegetationIndex, Num(CriticalIndex)) THEN
            Template("CRITICAL VEGETATION STRESS: HIGH", "Immediate intervention required.",
                     "Prioritize irrigation and nutrient support.")
        ELSE IF Lt(precipitationMm, Num(DroughtPrecip)) /\ Lt(vegetationIndex, Num(LowIndex)) THEN
            Template("SHORT-TERM DROUGHT RISK: HIGH", "Vegetation stress detected.",
                     "Prioritize irrigation.")
        ELSE IF Gt(precipitationMm, Num(FloodPrecip)) /\ Lt(vegetationIndex, Num(LowIndex)) THEN
            Template("FLOOD/STRESS RISK: HIGH", "Excessive moisture with weak vegetation.",
                     "Monitor for disease and drainage issues.")
        ELSE \* line1, line2 and line3 keep their initial ''
            Template("", "", "")
    ELSE IF riskLevel = "MEDIUM" THEN
        Template("MODERATE RISK: MEDIUM", "Vegetation shows some stress indicators.",
                 "Monitor closely and plan interventions.")
    ELSE
        Template("FIELD CONDITIONS: GOOD", "Vegetation health is satisfactory.",
                 "Continue routine field management.")

computeRiskAssessment(vegetationIndex, precipitationMm, cropType) ==
    LET riskLevel == computeRiskScore(vegetationIndex, precipitationMm)
        summary == generateRiskSummary(riskLevel, vegetationIndex, precipitationMm)
        interventions == selectInterventions(cropType, riskLevel)
    IN  [riskLevel |-> riskLevel, summary |-> summary, interventions |-> interventions]

InitSummary ==
    /\ pc = "ready"
    /\ op = "generateRiskSummary"
    /\ args \in [riskLevel : RiskLevels, index : IndexValues, precip : PrecipValues]
    /\ ret = Pending
    /\ Quiescent

CallGenerateRiskSummary ==
    /\ pc = "ready"
    /\ op = "generateRiskSummary"
    /\ ret' = generateRiskSummary(args.riskLevel, args.index, args.precip)
    /\ pc' = "done"
    /\ UNCHANGED <<op, args, slot, clock, lastLive, history>>

NextSummary == CallGenerateRiskSummary

SpecSummary == InitSummary /\ [][NextSummary]_vars

\* the crop identifiers handed to the complete assessment
AssessmentCrops == {"wheat", "unknown_crop"}

InitAssessment ==
    /\ pc = "ready"
    /\ op = "computeRiskAssessment"
    /\ args \in [index : IndexValues, precip : PrecipValues, cropType : AssessmentCrops]
    /\ ret = Pending
    /\ Quiescent

CallComputeRiskAssessment ==
    /\ pc = "ready"
    /\ op = "computeRiskAssessment"
    /\ ret' = computeRiskAssessment(args.index, args.precip, args.cropType)
    /\ pc' = "done"
    /\ UNCHANGED <<op, args, slot, clock, lastLive, history>>

NextAssessment == CallComputeRiskAssessment

SpecAssessment == InitAssessment /\ [][NextAssessment]_vars

\* the five fixed wordings of the summary
CriticalStressWording ==
    <<"CRITICAL VEGETATION STRESS: HIGH", "\n", "Immediate intervention required.", "\n",
      "Prioritize irrigation and nutrient support.">>
DroughtWording ==
    <<"SHORT-TERM DROUGHT RISK: HIGH", "\n", "Vegetation stress detected.", "\n",
      "Prioritize irrigation.">>
FloodWording ==
    <<"FLOOD/STRESS RISK: HIGH", "\n", "Excessive moisture with weak vegetation.", "\n",
      "Monitor for disease and drainage issues.">>
MediumWording ==
    <<"MODERATE RISK: MEDIUM", "\n", "Vegetation shows some stress indicators.", "\n",
      "Monitor closely and plan interventions.">>
LowWording ==
    <<"FIELD CONDITIONS: GOOD", "\n", "Vegetation health is satisfactory.", "\n",
      "Continue routine field management.">>

\* number of "\n" separators of a text, and its lines
Newlines(text) == Cardinality({i \in 1..Len(text) : text[i] = "\n"})
Lines(text) == SelectSeq(text, LAMBDA part : part # "\n")
HasEmptyLine(text) == \E i \in 1..Len(Lines(text)) : Lines(text)[i] = ""

AssessmentDone == pc = "done" /\ op = "computeRiskAssessment"

\* C11: for every (index, precipitation) pair, NaN and the infinities included,
\* computeRiskAssessment returns a riskLevel in {HIGH, MEDIUM, LOW} and the
\* summary of the rule that decided the level: the critical-stress wording when
\* index < 0.05, the drought wording when rule 2 decided, the flood wording when
\* rule 3 decided, the MEDIUM wording for MEDIUM and the LOW wording for LOW; the
\* summary never has an empty line.  Index 0.03 with precipitation 20 gives HIGH
\* and the first line "CRITICAL VEGETATION STRESS: HIGH".
C11_SummaryOfDecidingRule ==
    AssessmentDone =>
        /\ ret.riskLevel \in RiskLevels
        /\ ret.summary =
               IF IdxBelow(5) THEN CriticalStressWording
               ELSE IF IdxBelow(18) /\ PrecipBelow(50) THEN DroughtWording
               ELSE IF IdxBelow(18) /\ PrecipAbove(400) THEN FloodWording
               ELSE IF ret.riskLevel = "MEDIUM" THEN MediumWording
               ELSE LowWording
        /\ (ret.riskLevel = "HIGH") = (IdxBelow(5) \/ (IdxBelow(18) /\ (PrecipBelow(50) \/ PrecipAbove(400))))
        /\ ~HasEmptyLine(ret.summary)
        /\ (args.index = Num(3) /\ args.precip = Num(200)) =>
               (ret.riskLevel = "HIGH" /\ ret.summary[1] = "CRITICAL VEGETATION STRESS: HIGH")

C11_Witness ==
    /\ AssessmentDone /\ args.index = Num(3) /\ args.precip = Num(200)
    /\ ret.riskLevel = "HIGH" /\ ret.summary = CriticalStressWording

SummaryDone == pc = "done" /\ op = "generateRiskSummary"

\* C12: for every riskLevel in {HIGH, MEDIUM, LOW}, every index and every
\* precipitation, generateRiskSummary returns a text of exactly 3 lines (2
\* newline separators) that is one of the five fixed wordings; the
\* critical-stress, drought and flood wordings are returned only when riskLevel
\* is HIGH and the corresponding numeric condition holds.
C12_FiveWordings ==
    SummaryDone =>
        /\ Newlines(ret) = 2 /\ Len(Lines(ret)) = 3
        /\ ret \in {CriticalStressWording, DroughtWording, FloodWording, MediumWording, LowWording}
        /\ ret = CriticalStressWording => (args.riskLevel = "HIGH" /\ IdxBelow(5))
        /\ ret = DroughtWording => (args.riskLevel = "HIGH" /\ IdxBelow(18) /\ PrecipBelow(50))
        /\ ret = FloodWording => (args.riskLevel = "HIGH" /\ IdxBelow(18) /\ PrecipAbove(400))

(***************************************************************************)
(* Sequences of action-planner calls.  The module keeps no variable of its *)
(* own: every entry point computes its result from its arguments and from  *)
(* the heuristics table, which no entry point writes.                      *)
(***************************************************************************)
MaxPlannerCalls == 3     \* number of action-planner calls in a run

PlannerCrops == {"wheat", "unknown_crop", "constructor"}
PlannerRisks == {"HIGH", "UNKNOWN", "constructor"}
PlannerIndexes == {Num(3), NaN}
PlannerPrecips == {Num(20), Num(450)}

Call(name, arguments, result) == [op |-> name, args |-> arguments, ret |-> result]

InitPlanner ==
    /\ pc = "idle"
    /\ op = "actionPlanner"
    /\ args = <<>>
    /\ ret = Pending
    /\ Quiescent

\* the planner can be called: between calls, and the run is not over
Callable ==
    /\ op \in {"actionPlanner", "computeRiskScore", "generateRiskSummary",
               "selectInterventions", "computeRiskAssessment"}
    /\ pc \in {"idle", "returned"}
    /\ Len(history) < MaxPlannerCalls

\* the result is returned and the call is recorded
Returns(name, arguments, result) ==
    /\ op' = name
    /\ args' = arguments
    /\ ret' = result
    /\ history' = Append(history, Call(name, arguments, result))
    /\ pc' = "returned"
    /\ UNCHANGED <<slot, clock, lastLive>>

PlannerRiskScore(vegetationIndex, precipitationMm) ==
    /\ Callable
    /\ Returns("computeRiskScore", [index |-> vegetationIndex, precip |-> precipitationMm],
               Str(computeRiskScore(vegetationIndex, precipitationMm)))

PlannerRiskSummary(riskLevel, vegetationIndex, precipitationMm) ==
    /\ Callable
    /\ Returns("generateRiskSummary",
               [riskLevel |-> riskLevel, index |-> vegetationIndex, precip |-> precipitationMm],
               generateRiskSummary(riskLevel, vegetationIndex, precipitationMm))

PlannerSelect_alternating(cropType, riskLevel) ==
    /\ Callable
    /\ Returns("selectInterventions", [cropType |-> cropType, riskLevel |-> riskLevel],
               IF Len(history) % 2 = 0 THEN selectInterventions(cropType, riskLevel)
               ELSE getDefaultInterventions("LOW"))

PlannerSelect(cropType, riskLevel) ==
    /\ Callable
    /\ Returns("selectInterventions", [cropType |-> cropType, riskLevel |-> riskLevel],
               selectInterventions(cropType, riskLevel))

PlannerAssessment(vegetationIndex, precipitationMm, cropType) ==
    /\ Callable
    /\ Returns("computeRiskAssessment",
               [index |-> vegetationIndex, precip |-> precipitationMm, cropType |-> cropType],
               computeRiskAssessment(vegetationIndex, precipitationMm, cropType))

NextPlanner ==
    \/ \E i \in PlannerIndexes, p \in PlannerPrecips : PlannerRiskScore(i, p)
    \/ \E r \in {"HIGH", "LOW"}, i \in PlannerIndexes, p \in PlannerPrecips :
           PlannerRiskSummary(r, i, p)
    \/ \E c \in PlannerCrops, r \in PlannerRisks : PlannerSelect(c, r)
    \/ \E i \in PlannerIndexes, p \in PlannerPrecips, c \in PlannerCrops :
           PlannerAssessment(i, p, c)

SpecPlanner == InitPlanner /\ [][NextPlanner]_vars

SelectCalls == {k \in 1..Len(history) : history[k].op = "selectInterventions"}
AssessmentCalls == {k \in 1..Len(history) : history[k].op = "computeRiskAssessment"}

Iso(tick) == [t |-> "str", v |-> tick]       \* new Date().toISOString()

\* contents of the cache slot, as localStorage.getItem returns them
SlotEmpty == [k |-> "empty"]                 \* the empty string
SlotGarbage == [k |-> "garbage"]             \* text that JSON.parse rejects
SlotJsonNull == [k |-> "jsonnull"]           \* the text 'null'
SlotOther == [k |-> "other"]                 \* JSON of another shape, e.g. '{"v":1}' or '42'
SlotRec(f, at) ==
    [k |-> "rec", precipitationMm |-> f.precipitationMm, tempMin |-> f.tempMin,
     tempMax |-> f.tempMax, source |-> f.source, timestamp |-> f.timestamp,
     cachedAt |-> Num(at)]

Forecast(p, lo, hi, src, ts) ==
    [precipitationMm |-> p, tempMin |-> lo, tempMax |-> hi, source |-> src, timestamp |-> ts]

\* JSON.stringify of a number: NaN and the infinities are written as null
JsonNumber(x) == IF x.t \in {"nan", "inf"} THEN Null ELSE x

\* JSON.stringify({...forecast, cachedAt}) followed by the later JSON.parse
StringifyForecast(f, at) ==
    SlotRec(Forecast(JsonNumber(f.precipitationMm), JsonNumber(f.tempMin),
                     JsonNumber(f.tempMax), f.source, f.timestamp), at)

getSampleForecast_tagged(now) ==
    Forecast(Num(125), Num(8), Num(18), Str("sample"), Iso(now))

getSampleForecast(now) ==
    Forecast(Num(125), Num(8), Num(18), Str("cached"), Iso(now))

\* array[i] of a JavaScript array (1-based here): undefined past the end
At(array, i) == IF i <= Len(array.v) THEN Num(array.v[i]) ELSE Undefined

\* Math.min / Math.max of three arguments: NaN as soon as one is undefined
Min3(a, b, c) ==
    IF a.t # "num" \/ b.t # "num" \/ c.t # "num" THEN NaN
    ELSE Num(IF a.v <= b.v /\ a.v <= c.v THEN a.v ELSE IF b.v <= c.v THEN b.v ELSE c.v)

Max3(a, b, c) ==
    IF a.t # "num" \/ b.t # "num" \/ c.t # "num" THEN NaN
    ELSE Num(IF a.v >= b.v /\ a.v >= c.v THEN a.v ELSE IF b.v >= c.v THEN b.v ELSE c.v)

\* Math.round(x) of a value given in tenths
RoundTenths(x) == IF x.t = "num" THEN Num(Round(x.v, 10)) ELSE x

\* the response passes the format check of the try block
FormatAccepted(data) ==
    /\ ~Falsy(data.daily)
    /\ ~Falsy(data.daily.precipitation_sum)
    /\ ~(Len(data.daily.precipitation_sum.v) < 3)

\* reading temperature_2m_min[0] or temperature_2m_max[0] of a missing array throws
TemperatureReadable(data) ==
    /\ data.daily.temperature_2m_min.t = "arr"
    /\ data.daily.temperature_2m_max.t = "arr"

\* the forecast object built from an accepted response
Aggregate(data, now) ==
    LET daily == data.daily
        precipitationMm == daily.precipitation_sum.v[1] + daily.precipitation_sum.v[2]
                               + daily.precipitation_sum.v[3]
        tempMin == Min3(At(daily.temperature_2m_min, 1), At(daily.temperature_2m_min, 2),
                        At(daily.temperature_2m_min, 3))
        tempMax == Max3(At(daily.temperature_2m_max, 1), At(daily.temperature_2m_max, 2),
                        At(daily.temperature_2m_max, 3))
    IN  Forecast(Num(Round(precipitationMm, 100)),  \* Math.round(p * 10) / 10, p in thousandths
                 RoundTenths(tempMin), RoundTenths(tempMax), Str("openMeteo"), Iso(now))

\* the try block runs to its return statement
TryReturns(net, writeOk) ==
    /\ net.outcome = "ok"
    /\ FormatAccepted(net.data)
    /\ TemperatureReadable(net.data)
    /\ writeOk

\* the try block reaches localStorage.setItem and setItem stores the record
TryWrites(net, writeOk) == TryReturns(net, writeOk)

CatchBranch_sourceKept(cached, now) ==
    IF cached.k = "rec" THEN
        Forecast(cached.precipitationMm, cached.tempMin, cached.tempMax,
                 cached.source, cached.timestamp)
    ELSE IF cached.k = "other" THEN
        Forecast(Undefined, Undefined, Undefined, Str("cached"), Undefined)
    ELSE getSampleForecast(now)

\* the catch block: cached forecast if the slot parses, else the sample
CatchBranch(cached, now) ==
    IF cached.k = "rec" THEN
        Forecast(cached.precipitationMm, cached.tempMin, cached.tempMax,
                 Str("cached"), cached.timestamp)
    ELSE IF cached.k = "other" THEN
        \* JSON.parse succeeds, every field read is undefined
        Forecast(Undefined, Undefined, Undefined, Str("cached"), Undefined)
    ELSE \* absent or empty (falsy), unparsable, or 'null' (the field read throws)
        getSampleForecast(now)

\* bounds of the forecast provider's environment
MaxCalls == 3       \* number of fetchForecast calls in a run
MinDays == 2        \* shortest daily array of a response
MaxDays == 4        \* longest daily array of a response

\* daily values the weather service reports (thousandths of a mm, tenths of a degree)
DayPrecip(profile, day) ==
    IF profile = "showers" THEN (IF day = 1 THEN 5234 ELSE IF day = 2 THEN 3567
                                 ELSE IF day = 3 THEN 4891 ELSE 10000)
    ELSE (IF day <= 3 THEN 0 ELSE 250)

DayTempMin(day) == IF day = 1 THEN 80 ELSE IF day = 2 THEN 90 ELSE IF day = 3 THEN -74 ELSE -300
DayTempMax(day) == IF day = 1 THEN 180 ELSE IF day = 2 THEN 196 ELSE IF day = 3 THEN 175 ELSE 400

DayCounts == MinDays..MaxDays

PrecipArrays ==
    {Undefined} \cup {Arr([d \in 1..n |-> DayPrecip(profile, d)]) :
                          profile \in {"showers", "dry"}, n \in DayCounts}
TempMinArrays == {Undefined} \cup {Arr([d \in 1..n |-> DayTempMin(d)]) : n \in DayCounts}
TempMaxArrays == {Undefined} \cup {Arr([d \in 1..n |-> DayTempMax(d)]) : n \in DayCounts}

Daily(p, lo, hi) ==
    [t |-> "daily", precipitation_sum |-> p, temperature_2m_min |-> lo, temperature_2m_max |-> hi]

\* what the request can come back with
Responses ==
    {[outcome |-> o, data |-> [daily |-> Undefined]] : o \in {"reject", "timeout", "notOk", "badJson"}}
    \cup {[outcome |-> "ok", data |-> [daily |-> Undefined]]}
    \cup {[outcome |-> "ok", data |-> [daily |-> Daily(p, lo, hi)]] :
              p \in PrecipArrays, lo \in TempMinArrays, hi \in TempMaxArrays}

Coordinates == {[lat |-> 515, lon |-> -1], [lat |-> -339, lon |-> 1512]}

\* a forecast left in the slot by an earlier session
StoredForecasts ==
    {Forecast(Num(150), Num(6), Num(22), Str(src), Iso(0)) : src \in {"openMeteo", "cached"}}

InitialSlots ==
    {SlotAbsent, SlotEmpty, SlotGarbage, SlotJsonNull, SlotOther}
        \cup {SlotRec(f, 0) : f \in StoredForecasts}

NoArgs == [lat |-> 0, lon |-> 0, net |-> [outcome |-> "none", data |-> [daily |-> Undefined]],
           writeOk |-> TRUE]

InitForecast ==
    /\ pc = "idle"
    /\ op = "fetchForecast"
    /\ args = NoArgs
    /\ ret = Pending
    /\ slot \in InitialSlots
    /\ clock = 1
    /\ lastLive = NoForecast
    /\ history = <<>>

InitForecastEmpty == InitForecast /\ slot = SlotAbsent

\* one call of fetchForecast(lat, lon): the request comes back with net, and
\* localStorage.setItem succeeds iff writeOk
FetchForecast(c, net, writeOk) ==
    /\ op = "fetchForecast"
    /\ clock <= MaxCalls
    /\ args' = [lat |-> c.lat, lon |-> c.lon, net |-> net, writeOk |-> writeOk]
    /\ IF TryReturns(net, writeOk)
       THEN /\ ret' = Aggregate(net.data, clock)
            /\ lastLive' = Aggregate(net.data, clock)
       ELSE /\ ret' = CatchBranch(slot, clock)
            /\ UNCHANGED lastLive
    /\ slot' = IF TryWrites(net, writeOk)
               THEN StringifyForecast(Aggregate(net.data, clock), clock)
               ELSE slot
    /\ clock' = clock + 1
    /\ pc' = "done"
    /\ UNCHANGED <<op, history>>

NextForecast ==
    \E c \in Coordinates, net \in Responses, writeOk \in BOOLEAN : FetchForecast(c, net, writeOk)

SpecForecast == InitForecast /\ [][NextForecast]_vars

SpecForecastEmpty == InitForecastEmpty /\ [][NextForecast]_vars

ForecastDone == pc = "done" /\ op = "fetchForecast"

\* the step is a call of fetchForecast: unprimed is the state before the call
FetchStep == op = "fetchForecast" /\ clock' = clock + 1

\* the request itself failed: rejected, timed out, non-OK status, unreadable body
RequestFailed(net) == net.outcome \in {"reject", "timeout", "notOk", "badJson"}

HasDays(array) == array.t = "arr" /\ Len(array.v) >= 3

\* the response satisfies the wire contract: the three daily arrays, each >= 3 entries
WireContractMet(net) ==
    /\ net.outcome = "ok"
    /\ net.data.daily.t = "daily"
    /\ HasDays(net.data.daily.precipitation_sum)
    /\ HasDays(net.data.daily.temperature_2m_min)
    /\ HasDays(net.data.daily.temperature_2m_max)

\* a structurally valid ForecastSummary
ValidForecast(f) ==
    /\ f.precipitationMm.t = "num" /\ f.precipitationMm.v >= 0
    /\ f.tempMin.t = "num" /\ f.tempMax.t = "num" /\ f.tempMin.v <= f.tempMax.v
    /\ f.source.t = "str"
    /\ f.timestamp.t = "str"

\* C4: for every network outcome and every content of the cache slot,
\* fetchForecast resolves to a record with numeric precipitationMm >= 0, numeric
\* tempMin <= tempMax, a source string and a timestamp string.
C4_AlwaysValidForecast == ForecastDone => ValidForecast(ret)

\* the returned data is this call's network response: the request came back
\* OK with a body the handler could aggregate, and the handler got to its return
C7_FromNetwork ==
    /\ args.net.outcome = "ok"
    /\ args.net.data.daily.t = "daily"
    /\ HasDays(args.net.data.daily.precipitation_sum)
    /\ args.net.data.daily.temperature_2m_min.t = "arr"
    /\ args.net.data.daily.temperature_2m_max.t = "arr"
    /\ args.writeOk

SameReadings(f, g) ==
    /\ f.precipitationMm = g.precipitationMm
    /\ f.tempMin = g.tempMin
    /\ f.tempMax = g.tempMax
    /\ f.timestamp = g.timestamp

\* C8: starting from an empty slot, a call whose request fails returns the
\* readings and timestamp of the most recent earlier successful call with source
\* "cached", or the built-in sample if there was none, and leaves the slot
\* unchanged; every successful call overwrites the slot with its forecast.
C8_CacheFollowsLastSuccess ==
    [][FetchStep =>
        IF WireContractMet(args'.net)
        THEN slot'.k = "rec" /\ SameReadings(slot', ret')
        ELSE /\ slot' = slot
             /\ ret'.source = Str("cached")
             /\ IF lastLive = NoForecast
                THEN ret' = Forecast(Num(125), Num(8), Num(18), Str("cached"), Iso(clock))
                ELSE SameReadings(ret', lastLive)]_vars

\* C9: when the request fails and the slot holds a stored forecast, the call
\* returns that forecast's precipitationMm, tempMin, tempMax and timestamp
\* unchanged, with source "cached" whatever source is stored.
C9_CachedVerbatim ==
    [][(FetchStep /\ RequestFailed(args'.net) /\ slot.k = "rec") =>
        /\ SameReadings(ret', slot)
        /\ ret'.source = Str("cached")
        /\ slot' = slot]_vars

C9_Witness ==
    /\ ForecastDone /\ RequestFailed(args.net)
    /\ slot.k = "rec" /\ slot.source = Str("openMeteo")
    /\ SameReadings(ret, slot) /\ ret.source = Str("cached")

\* C10: an OK response in which daily is missing, or one of the three daily
\* arrays is missing or has fewer than 3 entries, is handled as a failure: the
\* call returns the cached forecast or the sample with source "cached" and the
\* slot is not overwritten.
C10_MalformedIsFailure ==
    [][(FetchStep /\ args'.net.outcome = "ok" /\ ~WireContractMet(args'.net)) =>
        /\ ret'.source = Str("cached")
        /\ slot' = slot]_vars

\* the first three entries of a daily array of the response
FirstThree(array) == {array.v[1], array.v[2], array.v[3]}
Least(S) == CHOOSE x \in S : \A y \in S : x <= y
Greatest(S) == CHOOSE x \in S : \A y \in S : x >= y

\* C15: on a successful response, fetchForecast returns precipitationMm = the
\* sum of the first three daily precipitation_sum entries rounded to one decimal
\* place, tempMin = the minimum of the first three daily minimum temperatures and
\* tempMax = the maximum of the first three daily maximum temperatures, each
\* rounded to the nearest integer; precipitation_sum [5.234, 3.567, 4.891] gives
\* 13.7.  Entries after the third do not affect the result.
C15_Aggregation ==
    (ForecastDone /\ WireContractMet(args.net)) =>
        LET daily == args.net.data.daily
            total == daily.precipitation_sum.v[1] + daily.precipitation_sum.v[2]
                         + daily.precipitation_sum.v[3]
        IN  /\ ret.precipitationMm = Num(Round(total, 100))
            /\ ret.tempMin = Num(Round(Least(FirstThree(daily.temperature_2m_min)), 10))
            /\ ret.tempMax = Num(Round(Greatest(FirstThree(daily.temperature_2m_max)), 10))
            /\ (total = 5234 + 3567 + 4891) => ret.precipitationMm = Num(137)

\* C29: if the request succeeds with a well-formed response, fetchForecast
\* returns the live forecast computed from that response, also when the write
\* into the cache slot throws: a failed cache write never turns a successful
\* fetch into a cached or sample result.
C29_WriteFailureKeepsLive ==
    [][(FetchStep /\ WireContractMet(args'.net)) =>
        /\ ret'.source = Str("openMeteo")
        /\ ret'.timestamp = Iso(clock)
        /\ ret' = lastLive']_vars

(***************************************************************************)
(* Concurrent fetchForecast calls.  A call runs without interruption       *)
(* between its two await points (await fetch, await response.json()); pc,  *)
(* args and ret are here functions of the call.                            *)
(***************************************************************************)
Calls == {1, 2}

CoordinatesOf(call) ==
    IF call = 1 THEN [lat |-> 515, lon |-> -1] ELSE [lat |-> -339, lon |-> 1512]

\* what the weather service reports for the coordinates of the call
ReportFor(call) ==
    IF call = 1
    THEN Daily(Arr(<<5234, 3567, 4891>>), Arr(<<80, 90, -74>>), Arr(<<180, 196, 175>>))
    ELSE Daily(Arr(<<0, 0, 0>>), Arr(<<212, 230, 221>>), Arr(<<305, 341, 298>>))

ResponsesFor(call) ==
    {[outcome |-> o, data |-> [daily |-> Undefined]] : o \in {"reject", "notOk", "badJson"}}
    \cup {[outcome |-> "ok", data |-> [daily |-> Undefined]],
          [outcome |-> "ok", data |-> [daily |-> ReportFor(call)]]}

InitConcurrent ==
    /\ pc = [call \in Calls |-> "idle"]
    /\ op = "fetchForecast"
    /\ args = [call \in Calls |-> NoArgs]
    /\ ret = [call \in Calls |-> Pending]
    /\ slot \in InitialSlots
    /\ clock = 1
    /\ lastLive = NoForecast
    /\ history = <<>>

\* localStorage.getItem(cacheKey) of the catch block
CachedData_atStart(current, atStart) == atStart

CachedData(current, atStart) == current

\* fetchForecast(lat, lon) is called and runs up to await fetch(...)
Begin(call) ==
    /\ op = "fetchForecast"
    /\ DOMAIN pc = Calls
    /\ pc[call] = "idle"
    /\ pc' = [pc EXCEPT ![call] = "fetching"]
    /\ args' = [args EXCEPT ![call] = [NoArgs EXCEPT !.lat = CoordinatesOf(call).lat,
                                                     !.lon = CoordinatesOf(call).lon]]
    /\ history' = Append(history, [call |-> call, slot |-> slot])
    /\ UNCHANGED <<op, ret, slot, clock, lastLive>>

SlotAtStart(call) ==
    LET at == CHOOSE k \in 1..Len(history) : history[k].call = call IN history[at].slot

\* the catch block of the call runs to its return
Catches(call) ==
    /\ ret' = [ret EXCEPT ![call] = CatchBranch(CachedData(slot, SlotAtStart(call)), clock)]
    /\ pc' = [pc EXCEPT ![call] = "done"]
    /\ clock' = clock + 1
    /\ UNCHANGED <<slot, lastLive>>

\* await fetch(...) settles: on a rejection or a non-OK status the catch block
\* runs, otherwise the call goes on to await response.json()
ResponseArrives(call, net) ==
    /\ op = "fetchForecast"
    /\ DOMAIN pc = Calls
    /\ pc[call] = "fetching"
    /\ args' = [args EXCEPT ![call].net = net]
    /\ IF net.outcome \in {"reject", "timeout", "notOk"}
       THEN Catches(call)
       ELSE /\ pc' = [pc EXCEPT ![call] = "parsing"]
            /\ UNCHANGED <<ret, slot, clock, lastLive>>
    /\ UNCHANGED <<op, history>>

\* await response.json() settles and the call runs to its return
BodyArrives(call, writeOk) ==
    /\ op = "fetchForecast"
    /\ DOMAIN pc = Calls
    /\ pc[call] = "parsing"
    /\ args' = [args EXCEPT ![call].writeOk = writeOk]
    /\ IF TryReturns(args[call].net, writeOk)
       THEN /\ ret' = [ret EXCEPT ![call] = Aggregate(args[call].net.data, clock)]
            /\ lastLive' = Aggregate(args[call].net.data, clock)
            /\ slot' = StringifyForecast(Aggregate(args[call].net.data, clock), clock)
            /\ pc' = [pc EXCEPT ![call] = "done"]
            /\ clock' = clock + 1
       ELSE Catches(call)
    /\ UNCHANGED <<op, history>>

NextConcurrent ==
    \E call \in Calls :
        \/ Begin(call)
        \/ \E net \in ResponsesFor(call) : ResponseArrives(call, net)
        \/ \E writeOk \in BOOLEAN : BodyArrives(call, writeOk)

SpecConcurrent == InitConcurrent /\ [][NextConcurrent]_vars

AllFinished == DOMAIN pc = Calls /\ \A call \in Calls : pc[call] = "done"

\* the call returns in this step through its catch block
FailsNow(call) ==
    /\ pc[call] # "done" /\ pc'[call] = "done"
    /\ ~(pc[call] = "parsing" /\ TryReturns(args[call].net, args'[call].writeOk))

\* C25: when two fetchForecast calls for different coordinates run
\* concurrently, in every interleaving the slot after both have finished holds
\* the complete record written by the successful call that wrote last (never a
\* mix of fields of two records), and a call that fails returns the record that
\* is in the slot when it reads it, also when that record was fetched for the
\* other coordinates.
C25_LastWriterWins ==
    [][/\ (AllFinished' /\ lastLive' # NoForecast) =>
              /\ slot'.k = "rec"
              /\ slot'.precipitationMm = JsonNumber(lastLive'.precipitationMm)
              /\ slot'.tempMin = JsonNumber(lastLive'.tempMin)
              /\ slot'.tempMax = JsonNumber(lastLive'.tempMax)
              /\ slot'.source = lastLive'.source
              /\ slot'.timestamp = lastLive'.timestamp
       /\ \A call \in Calls :
              (FailsNow(call) /\ slot.k = "rec") =>
                  /\ SameReadings(ret'[call], slot)
                  /\ ret'[call].source = Str("cached")
                  /\ slot' = slot]_vars

\* call 1 fails after call 2 has written, and returns the record of call 2
C25_Witness ==
    /\ AllFinished
    /\ ret[2].source = Str("openMeteo") /\ ret[2].precipitationMm = Num(0)
    /\ ret[1].source = Str("cached") /\ SameReadings(ret[1], ret[2])
    /\ slot.k = "rec" /\ SameReadings(slot, ret[2])

(***************************************************************************)
(* State codec (share.js encodeState / decodeState).                       *)
(* A JavaScript string is the sequence of its UTF-16 code units; a binary  *)
(* string is a sequence of bytes.  JSON values are tagged records:         *)
(* null, bool, num (integers), negzero (-0), jstr, arr, obj (a sequence of *)
(* <<key, value>> pairs in insertion order) and undef for a field whose    *)
(* value is undefined.                                                     *)
(***************************************************************************)
Bool(b) == [t |-> "bool", v |-> b]
NegZero == [t |-> "negzero", v |-> 0]
JStr(units) == [t |-> "jstr", v |-> units]
Obj(fields) == [t |-> "obj", v |-> fields]
NumLit(text) == [t |-> "numlit", v |-> text]   \* a number literal with fraction or exponent
Throw(what) == [t |-> "throw", v |-> what]
Ok(value) == [t |-> "ok", v |-> value]

IsHighSurrogate(c) == c >= 55296 /\ c <= 56319      \* 0xD800..0xDBFF
IsLowSurrogate(c) == c >= 56320 /\ c <= 57343       \* 0xDC00..0xDFFF

RECURSIVE Digits(_)
Digits(n) == IF n < 10 THEN <<48 + n>> ELSE Digits(n \div 10) \o <<48 + (n % 10)>>

\* Number::toString of an integer
NumberText(n) == IF n < 0 THEN <<45>> \o Digits(-n) ELSE Digits(n)

HexDigit(d) == IF d < 10 THEN 48 + d ELSE 87 + d
Hex4(c) == <<HexDigit(c \div 4096), HexDigit((c \div 256) % 16),
             HexDigit((c \div 16) % 16), HexDigit(c % 16)>>

RECURSIVE QuoteFrom(_, _)
\* QuoteJSONString from unit i on: the short escapes, \u00xx for other control
\* characters, \udxxx for a surrogate that is not part of a pair
QuoteFrom(units, i) ==
    IF i > Len(units) THEN <<34>>
    ELSE LET c == units[i] IN
        IF c = 34 THEN <<92, 34>> \o QuoteFrom(units, i + 1)
        ELSE IF c = 92 THEN <<92, 92>> \o QuoteFrom(units, i + 1)
        ELSE IF c = 8 THEN <<92, 98>> \o QuoteFrom(units, i + 1)
        ELSE IF c = 9 THEN <<92, 116>> \o QuoteFrom(units, i + 1)
        ELSE IF c = 10 THEN <<92, 110>> \o QuoteFrom(units, i + 1)
        ELSE IF c = 12 THEN <<92, 102>> \o QuoteFrom(units, i + 1)
        ELSE IF c = 13 THEN <<92, 114>> \o QuoteFrom(units, i + 1)
        ELSE IF c < 32 THEN <<92, 117>> \o Hex4(c) \o QuoteFrom(units, i + 1)
        ELSE IF IsHighSurrogate(c) /\ i < Len(units) /\ IsLowSurrogate(units[i + 1])
            THEN <<c, units[i + 1]>> \o QuoteFrom(units, i + 2)
        ELSE IF IsHighSurrogate(c) \/ IsLowSurrogate(c)
            THEN <<92, 117>> \o Hex4(c) \o QuoteFrom(units, i + 1)
        ELSE <<c>> \o QuoteFrom(units, i + 1)

QuoteJSONString(units) == <<34>> \o QuoteFrom(units, 1)

RECURSIVE Stringify(_)
RECURSIVE StringifyItems(_, _)
RECURSIVE StringifyFields(_, _, _)

\* the elements of an array from i on, comma separated
StringifyItems(items, i) ==
    IF i > Len(items) THEN <<>>
    ELSE (IF i > 1 THEN <<44>> ELSE <<>>)
             \o (IF items[i].t = "undef" THEN <<110, 117, 108, 108>> ELSE Stringify(items[i]))
             \o StringifyItems(items, i + 1)

\* the fields of an object from i on; a field whose value is undefined is left out
StringifyFields(fields, i, first) ==
    IF i > Len(fields) THEN <<>>
    ELSE IF fields[i][2].t = "undef" THEN StringifyFields(fields, i + 1, first)
    ELSE (IF first THEN <<>> ELSE <<44>>)
             \o QuoteJSONString(fields[i][1]) \o <<58>> \o Stringify(fields[i][2])
             \o StringifyFields(fields, i + 1, FALSE)

\* JSON.stringify(value)
Stringify(value) ==
    IF value.t = "null" THEN <<110, 117, 108, 108>>
    ELSE IF value.t = "bool" THEN
        (IF value.v THEN <<116, 114, 117, 101>> ELSE <<102, 97, 108, 115, 101>>)
    ELSE IF value.t = "num" THEN NumberText(value.v)
    ELSE IF value.t = "negzero" THEN <<48>>
    ELSE IF value.t = "jstr" THEN QuoteJSONString(value.v)
    ELSE IF value.t = "arr" THEN <<91>> \o StringifyItems(value.v, 1) \o <<93>>
    ELSE <<123>> \o StringifyFields(value.v, 1, TRUE) \o <<125>>

\* the bytes of the UTF-8 encoding of code point cp
Utf8Bytes(cp) ==
    IF cp < 128 THEN <<cp>>
    ELSE IF cp < 2048 THEN <<192 + (cp \div 64), 128 + (cp % 64)>>
    ELSE IF cp < 65536 THEN <<224 + (cp \div 4096), 128 + ((cp \div 64) % 64), 128 + (cp % 64)>>
    ELSE <<240 + (cp \div 262144), 128 + ((cp \div 4096) % 64),
           128 + ((cp \div 64) % 64), 128 + (cp % 64)>>

RECURSIVE Utf8EncodeFrom(_, _)
\* unescape(encodeURIComponent(s)) from unit i on; encodeURIComponent throws a
\* URIError on a surrogate that is not part of a pair
Utf8EncodeFrom(units, i) ==
    IF i > Len(units) THEN [ok |-> TRUE, bytes |-> <<>>]
    ELSE LET c == units[i] IN
        IF IsHighSurrogate(c) /\ i < Len(units) /\ IsLowSurrogate(units[i + 1]) THEN
            LET rest == Utf8EncodeFrom(units, i + 2)
                cp == 65536 + (c - 55296) * 1024 + (units[i + 1] - 56320)
            IN  [ok |-> rest.ok, bytes |-> Utf8Bytes(cp) \o rest.bytes]
        ELSE IF IsHighSurrogate(c) \/ IsLowSurrogate(c) THEN [ok |-> FALSE, bytes |-> <<>>]
        ELSE LET rest == Utf8EncodeFrom(units, i + 1)
             IN  [ok |-> rest.ok, bytes |-> Utf8Bytes(c) \o rest.bytes]

Utf8Encode(units) == Utf8EncodeFrom(units, 1)

\* the character of the base64 alphabet for a 6-bit group
Base64Char(g) ==
    IF g < 26 THEN 65 + g
    ELSE IF g < 52 THEN 97 + (g - 26)
    ELSE IF g < 62 THEN 48 + (g - 52)
    ELSE IF g = 62 THEN 43 ELSE 47

RECURSIVE BtoaFrom(_, _)
BtoaFrom(bytes, i) ==
    LET left == Len(bytes) - i + 1 IN
    IF left <= 0 THEN <<>>
    ELSE IF left = 1 THEN
        <<Base64Char(bytes[i] \div 4), Base64Char((bytes[i] % 4) * 16), 61, 61>>
    ELSE IF left = 2 THEN
        <<Base64Char(bytes[i] \div 4),
          Base64Char((bytes[i] % 4) * 16 + (bytes[i + 1] \div 16)),
          Base64Char((bytes[i + 1] % 16) * 4), 61>>
    ELSE <<Base64Char(bytes[i] \div 4),
           Base64Char((bytes[i] % 4) * 16 + (bytes[i + 1] \div 16)),
           Base64Char((bytes[i + 1] % 16) * 4 + (bytes[i + 2] \div 64)),
           Base64Char(bytes[i + 2] % 64)>> \o BtoaFrom(bytes, i + 3)

\* btoa(binaryString): throws on a character above 255
btoa(bytes) ==
    IF \E i \in 1..Len(bytes) : bytes[i] > 255 THEN Throw("InvalidCharacterError")
    ELSE Ok(BtoaFrom(bytes, 1))

MapChars(chars, from, to) == [i \in 1..Len(chars) |-> IF chars[i] = from THEN to ELSE chars[i]]

RemoveChar_firstOnly(chars, c) ==
    IF \E i \in 1..Len(chars) : chars[i] = c
    THEN LET first == CHOOSE i \in 1..Len(chars) :
                          chars[i] = c /\ \A j \in 1..(i - 1) : chars[j] # c
         IN  SubSeq(chars, 1, first - 1) \o SubSeq(chars, first + 1, Len(chars))
    ELSE chars

\* string.replace(/c/g, '')
RemoveChar(chars, c) == SelectSeq(chars, LAMBDA x : x # c)

encodeState_noUtf8(cardState) ==
    LET base64 == btoa(Stringify(cardState))
    IN  IF base64.t = "throw" THEN base64
        ELSE [t |-> "token",
              v |-> RemoveChar(MapChars(MapChars(base64.v, 43, 45), 47, 95), 61)]

encodeState(cardState) ==
    LET jsonString == Stringify(cardState)
        utf8String == Utf8Encode(jsonString)
    IN  IF ~utf8String.ok THEN Throw("URIError")
        ELSE LET base64 == btoa(utf8String.bytes)
             IN  IF base64.t = "throw" THEN base64
                 ELSE [t |-> "token",
                       v |-> RemoveChar(MapChars(MapChars(base64.v, 43, 45), 47, 95), 61)]

\* the 6-bit group of a character of the base64 alphabet, -1 for any other character
Base64Value(c) ==
    IF c >= 65 /\ c <= 90 THEN c - 65
    ELSE IF c >= 97 /\ c <= 122 THEN c - 97 + 26
    ELSE IF c >= 48 /\ c <= 57 THEN c - 48 + 52
    ELSE IF c = 43 THEN 62
    ELSE IF c = 47 THEN 63
    ELSE -1

IsAsciiWhitespace(c) == c \in {9, 10, 12, 13, 32}

RECURSIVE AtobFrom(_, _)
\* the bytes of the groups from character i on; left-over bits are discarded
AtobFrom(chars, i) ==
    LET left == Len(chars) - i + 1
        g(k) == Base64Value(chars[i + k])
    IN  IF left <= 0 THEN <<>>
        ELSE IF left = 2 THEN <<g(0) * 4 + (g(1) \div 16)>>
        ELSE IF left = 3 THEN <<g(0) * 4 + (g(1) \div 16), (g(1) % 16) * 16 + (g(2) \div 4)>>
        ELSE <<g(0) * 4 + (g(1) \div 16), (g(1) % 16) * 16 + (g(2) \div 4),
               (g(2) % 4) * 64 + g(3)>> \o AtobFrom(chars, i + 4)

\* the data with at most two trailing '=' removed
StripPadding(chars) ==
    LET n == Len(chars) IN
    IF n >= 2 /\ chars[n] = 61 /\ chars[n - 1] = 61 THEN SubSeq(chars, 1, n - 2)
    ELSE IF n >= 1 /\ chars[n] = 61 THEN SubSeq(chars, 1, n - 1)
    ELSE chars

\* atob(data): the forgiving base64 decode of the platform
atob(data) ==
    LET noSpace == SelectSeq(data, LAMBDA c : ~IsAsciiWhitespace(c))
        body == IF Len(noSpace) % 4 = 0 THEN StripPadding(noSpace) ELSE noSpace
    IN  IF Len(body) % 4 = 1 THEN Throw("InvalidCharacterError")
        ELSE IF \E i \in 1..Len(body) : Base64Value(body[i]) < 0 THEN Throw("InvalidCharacterError")
        ELSE Ok(AtobFrom(body, 1))

IsContinuation(bytes, i) == i <= Len(bytes) /\ bytes[i] >= 128 /\ bytes[i] <= 191

\* the UTF-16 code units of code point cp
Utf16Units(cp) ==
    IF cp < 65536 THEN <<cp>>
    ELSE <<55296 + ((cp - 65536) \div 1024), 56320 + ((cp - 65536) % 1024)>>

RECURSIVE Utf8DecodeFrom(_, _)
\* decodeURIComponent(escape(s)) from byte i on: a URIError on anything that
\* is not the UTF-8 encoding of a code point (stray continuation byte,
\* truncated or overlong sequence, encoded surrogate, value above 0x10FFFF)
Utf8DecodeFrom(bytes, i) ==
    IF i > Len(bytes) THEN [ok |-> TRUE, units |-> <<>>]
    ELSE LET b == bytes[i]
             bad == [ok |-> FALSE, units |-> <<>>]
             then(cp, n) == LET rest == Utf8DecodeFrom(bytes, i + n)
                            IN  [ok |-> rest.ok, units |-> Utf16Units(cp) \o rest.units]
         IN
        IF b < 128 THEN then(b, 1)
        ELSE IF b < 194 THEN bad
        ELSE IF b < 224 THEN
            IF IsContinuation(bytes, i + 1)
            THEN then((b - 192) * 64 + (bytes[i + 1] - 128), 2) ELSE bad
        ELSE IF b < 240 THEN
            IF IsContinuation(bytes, i + 1) /\ IsContinuation(bytes, i + 2)
            THEN LET cp == (b - 224) * 4096 + (bytes[i + 1] - 128) * 64 + (bytes[i + 2] - 128)
                 IN  IF cp < 2048 \/ (cp >= 55296 /\ cp <= 57343) THEN bad ELSE then(cp, 3)
            ELSE bad
        ELSE IF b < 245 THEN
            IF IsContinuation(bytes, i + 1) /\ IsContinuation(bytes, i + 2)
                   /\ IsContinuation(bytes, i + 3)
            THEN LET cp == (b - 240) * 262144 + (bytes[i + 1] - 128) * 4096
                               + (bytes[i + 2] - 128) * 64 + (bytes[i + 3] - 128)
                 IN  IF cp < 65536 \/ cp > 1114111 THEN bad ELSE then(cp, 4)
            ELSE bad
        ELSE bad

RECURSIVE Utf8Decode(_)
\* a long text is decoded in two parts that meet at the first byte of a
\* sequence, which decodes as the whole text does
Utf8Decode(bytes) ==
    LET starts == {p \in 2..Len(bytes) : ~IsContinuation(bytes, p)}
        mid == (Len(bytes) \div 2) + 1
        Far(p) == IF p < mid THEN mid - p ELSE p - mid
    IN  IF Len(bytes) <= 8 \/ starts = {} THEN Utf8DecodeFrom(bytes, 1)
        ELSE LET p == CHOOSE q \in starts : \A r \in starts : Far(q) <= Far(r)
                 left == Utf8Decode(SubSeq(bytes, 1, p - 1))
                 right == Utf8Decode(SubSeq(bytes, p, Len(bytes)))
             IN  IF ~left.ok THEN left
                 ELSE [ok |-> right.ok, units |-> left.units \o right.units]

\* a parse result: the value and the index of the first character after it
Parsed(value, next) == [ok |-> TRUE, v |-> value, i |-> next]
ParseError == [ok |-> FALSE, v |-> Null, i |-> 0]

IsJsonWhitespace(c) == c \in {9, 10, 13, 32}
IsDigit(c) == c >= 48 /\ c <= 57

CharAt(text, i) == IF i >= 1 /\ i <= Len(text) THEN text[i] ELSE -1

RECURSIVE SkipWhitespace(_, _)
SkipWhitespace(text, i) ==
    IF IsJsonWhitespace(CharAt(text, i)) THEN SkipWhitespace(text, i + 1) ELSE i

RECURSIVE SkipDigits(_, _)
SkipDigits(text, i) == IF IsDigit(CharAt(text, i)) THEN SkipDigits(text, i + 1) ELSE i

RECURSIVE DigitsValue(_, _, _)
\* the value of the decimal digits text[i..j-1]
DigitsValue(text, i, j) ==
    IF i >= j THEN 0 ELSE DigitsValue(text, i, j - 1) * 10 + (text[j - 1] - 48)

\* the literal word at position i
MatchWord(text, i, word) ==
    /\ i + Len(word) - 1 <= Len(text)
    /\ \A k \in 1..Len(word) : text[i + k - 1] = word[k]

\* a JSON number starting at i: -? (0 | [1-9][0-9]*) (. [0-9]+)? ([eE] [+-]? [0-9]+)?
ParseNumber(text, i) ==
    LET negative == CharAt(text, i) = 45
        intStart == IF negative THEN i + 1 ELSE i
        intEnd == IF CharAt(text, intStart) = 48 THEN intStart + 1 ELSE SkipDigits(text, intStart)
        fracEnd == IF CharAt(text, intEnd) = 46 THEN SkipDigits(text, intEnd + 1) ELSE intEnd
        hasExp == CharAt(text, fracEnd) \in {101, 69}
        expStart == IF CharAt(text, fracEnd + 1) \in {43, 45} THEN fracEnd + 2 ELSE fracEnd + 1
        expEnd == IF hasExp THEN SkipDigits(text, expStart) ELSE fracEnd
        magnitude == DigitsValue(text, intStart, intEnd)
    IN  IF intEnd = intStart THEN ParseError
        ELSE IF CharAt(text, intEnd) = 46 /\ fracEnd = intEnd + 1 THEN ParseError
        ELSE IF hasExp /\ expEnd = expStart THEN ParseError
        ELSE IF expEnd > intEnd THEN Parsed(NumLit(SubSeq(text, i, expEnd - 1)), expEnd)
        ELSE IF negative /\ magnitude = 0 THEN Parsed(NegZero, expEnd)
        ELSE Parsed(Num(IF negative THEN -magnitude ELSE magnitude), expEnd)

HexValue(c) ==
    IF IsDigit(c) THEN c - 48
    ELSE IF c >= 97 /\ c <= 102 THEN c - 87
    ELSE IF c >= 65 /\ c <= 70 THEN c - 55
    ELSE -1

\* the character a one-letter escape stands for, -1 if it is none
EscapeValue(c) ==
    IF c = 34 THEN 34 ELSE IF c = 92 THEN 92 ELSE IF c = 47 THEN 47
    ELSE IF c = 98 THEN 8 ELSE IF c = 102 THEN 12 ELSE IF c = 110 THEN 10
    ELSE IF c = 114 THEN 13 ELSE IF c = 116 THEN 9 ELSE -1

RECURSIVE ParseStringFrom(_, _, _)
\* the rest of a string literal from i on (the opening quote is consumed),
\* acc holds the units read so far
ParseStringFrom(text, i, acc) ==
    LET c == CharAt(text, i) IN
    IF c = -1 \/ c < 32 THEN ParseError
    ELSE IF c = 34 THEN Parsed(JStr(acc), i + 1)
    ELSE IF c = 92 THEN
        LET e == CharAt(text, i + 1) IN
        IF e = 117 THEN
            LET h(k) == HexValue(CharAt(text, i + 1 + k)) IN
            IF h(1) < 0 \/ h(2) < 0 \/ h(3) < 0 \/ h(4) < 0 THEN ParseError
            ELSE ParseStringFrom(text, i + 6,
                                 Append(acc, h(1) * 4096 + h(2) * 256 + h(3) * 16 + h(4)))
        ELSE IF EscapeValue(e) < 0 THEN ParseError
        ELSE ParseStringFrom(text, i + 2, Append(acc, EscapeValue(e)))
    ELSE ParseStringFrom(text, i + 1, Append(acc, c))

\* obj[key] = value: an existing key keeps its place and takes the new value
SetField(fields, key, value) ==
    IF \E k \in 1..Len(fields) : fields[k][1] = key
    THEN [k \in 1..Len(fields) |-> IF fields[k][1] = key THEN <<key, value>> ELSE fields[k]]
    ELSE Append(fields, <<key, value>>)

RECURSIVE ParseValue(_, _)
RECURSIVE ParseElements(_, _, _)
RECURSIVE ParseMembers(_, _, _)

\* the elements of an array; i is at the start of an element
ParseElements(text, i, acc) ==
    LET element == ParseValue(text, i) IN
    IF ~element.ok THEN ParseError
    ELSE LET j == SkipWhitespace(text, element.i) IN
        IF CharAt(text, j) = 44 THEN ParseElements(text, j + 1, Append(acc, element.v))
        ELSE IF CharAt(text, j) = 93 THEN Parsed(Arr(Append(acc, element.v)), j + 1)
        ELSE ParseError

\* the members of an object; i is at the start of a member
ParseMembers(text, i, acc) ==
    LET k == SkipWhitespace(text, i) IN
    IF CharAt(text, k) # 34 THEN ParseError
    ELSE LET key == ParseStringFrom(text, k + 1, <<>>) IN
        IF ~key.ok THEN ParseError
        ELSE LET colon == SkipWhitespace(text, key.i) IN
            IF CharAt(text, colon) # 58 THEN ParseError
            ELSE LET member == ParseValue(text, colon + 1) IN
                IF ~member.ok THEN ParseError
                ELSE LET j == SkipWhitespace(text, member.i)
                         fields == SetField(acc, key.v.v, member.v)
                     IN  IF CharAt(text, j) = 44 THEN ParseMembers(text, j + 1, fields)
                         ELSE IF CharAt(text, j) = 125 THEN Parsed(Obj(fields), j + 1)
                         ELSE ParseError

\* a JSON value, leading whitespace allowed
ParseValue(text, start) ==
    LET i == SkipWhitespace(text, start)
        c == CharAt(text, i)
    IN  IF c = 110 THEN
            (IF MatchWord(text, i, <<110, 117, 108, 108>>) THEN Parsed(Null, i + 4) ELSE ParseError)
        ELSE IF c = 116 THEN
            (IF MatchWord(text, i, <<116, 114, 117, 101>>) THEN Parsed(Bool(TRUE), i + 4)
             ELSE ParseError)
        ELSE IF c = 102 THEN
            (IF MatchWord(text, i, <<102, 97, 108, 115, 101>>) THEN Parsed(Bool(FALSE), i + 5)
             ELSE ParseError)
        ELSE IF c = 34 THEN ParseStringFrom(text, i + 1, <<>>)
        ELSE IF c = 91 THEN
            (IF CharAt(text, SkipWhitespace(text, i + 1)) = 93
             THEN Parsed(Arr(<<>>), SkipWhitespace(text, i + 1) + 1)
             ELSE ParseElements(text, i + 1, <<>>))
        ELSE IF c = 123 THEN
            (IF CharAt(text, SkipWhitespace(text, i + 1)) = 125
             THEN Parsed(Obj(<<>>), SkipWhitespace(text, i + 1) + 1)
             ELSE ParseMembers(text, i + 1, <<>>))
        ELSE IF c = 45 \/ IsDigit(c) THEN ParseNumber(text, i)
        ELSE ParseError

\* JSON.parse(text): one value, nothing but whitespace after it
JsonParse(text) ==
    LET value == ParseValue(text, 1) IN
    IF value.ok /\ SkipWhitespace(text, value.i) = Len(text) + 1 THEN Ok(value.v)
    ELSE Throw("SyntaxError")

\* '='.repeat(n) appended
PadWith(chars, n) == chars \o [k \in 1..n |-> 61]

decodeState(base64urlString) ==
    LET base64 == MapChars(MapChars(base64urlString, 45, 43), 95, 47)
        padding == 4 - (Len(base64) % 4)
        padded == IF padding # 4 THEN PadWith(base64, padding) ELSE base64
        utf8String == atob(padded)
    IN  IF utf8String.t = "throw" THEN Throw("Failed to decode state")
        ELSE LET jsonString == Utf8Decode(utf8String.v) IN
            IF ~jsonString.ok THEN Throw("Failed to decode state")
            ELSE LET parsed == JsonParse(jsonString.units) IN
                IF parsed.t = "throw" THEN Throw("Failed to decode state") ELSE parsed

\* bounds of the values and tokens handed to the codec
MaxStrLen == 2      \* code units in a string
MaxItems == 2       \* elements of an array, fields of an object
MaxTokenLen == 4    \* characters of a token handed to decodeState

\* code units: a " \ newline, e-acute, the euro sign, the surrogate pair of U+1F30D
StrUnits == {97, 34, 92, 10, 233, 8364, 55356, 57101}
Strings == UNION {[1..n -> StrUnits] : n \in 0..MaxStrLen}
Numbers == {-12, -1, 0, 7, 105}

Scalars ==
    {Null, Bool(TRUE), Bool(FALSE), NegZero}
        \cup {Num(n) : n \in Numbers} \cup {JStr(u) : u \in Strings}

Items == {Null, Bool(FALSE), Num(-1), NegZero, JStr(<<8364>>), JStr(<<55356, 57101>>)}
Keys == {<<97>>, <<233, 34>>, <<>>}

Arrays == {Arr(a) : a \in UNION {[1..n -> Items] : n \in 0..MaxItems}}

\* field lists with pairwise different keys; a field may hold undefined
FieldLists ==
    {f \in UNION {[1..n -> Keys \X (Items \cup {Undefined})] : n \in 0..MaxItems} :
        \A i, j \in 1..Len(f) : i # j => f[i][1] # f[j][1]}

Objects == {Obj(f) : f \in FieldLists}

Composites ==
    {Arr(<<>>), Arr(<<Num(-1), JStr(<<8364>>)>>), Obj(<<>>),
     Obj(<< <<(<<97>>), Undefined>> >>),
     Obj(<< <<(<<97>>), NegZero>>, <<(<<>>), JStr(<<233, 34>>)>> >>)}

Nested ==
    {Arr(<<x>>) : x \in Composites} \cup {Obj(<< <<k, x>> >>) : k \in Keys, x \in Composites}

CardStates == Scalars \cup Arrays \cup Objects \cup Nested

\* characters of the tokens: M Q W 1 0 and, outside the base64url alphabet, = space !
TokenChars == {77, 81, 87, 49, 48, 61, 32, 33}
Tokens == UNION {[1..n -> TokenChars] : n \in 0..MaxTokenLen}

InitCodec ==
    /\ pc = "ready"
    /\ \/ op = "encodeState" /\ args \in CardStates
       \/ op = "decodeState" /\ args \in Tokens
    /\ ret = Pending
    /\ Quiescent

CallEncodeState ==
    /\ pc = "ready"
    /\ op = "encodeState"
    /\ ret' = encodeState(args)
    /\ pc' = "encoded"
    /\ UNCHANGED <<op, args, slot, clock, lastLive, history>>

\* decodeState of the token drawn, or of the token encodeState has just returned
CallDecodeState ==
    /\ \/ pc = "ready" /\ op = "decodeState" /\ ret' = decodeState(args)
       \/ pc = "encoded" /\ ret.t = "token" /\ ret' = decodeState(ret.v)
    /\ pc' = "done"
    /\ UNCHANGED <<op, args, slot, clock, lastLive, history>>

NextCodec == CallEncodeState \/ CallDecodeState

SpecCodec == InitCodec /\ [][NextCodec]_vars

RECURSIVE Normalize(_)
\* the value a round trip is allowed to return: -0 as 0, undefined fields dropped
Normalize(value) ==
    IF value.t = "negzero" THEN Num(0)
    ELSE IF value.t = "arr" THEN Arr([i \in 1..Len(value.v) |-> Normalize(value.v[i])])
    ELSE IF value.t = "obj" THEN
        LET kept == SelectSeq(value.v, LAMBDA f : f[2].t # "undef")
        IN  Obj([i \in 1..Len(kept) |-> <<kept[i][1], Normalize(kept[i][2])>>])
    ELSE value

RECURSIVE DeepEqual(_, _)
\* deep equality: same type, arrays element by element, objects key by key
DeepEqual(a, b) ==
    IF a.t # b.t THEN FALSE
    ELSE IF a.t = "arr" THEN
        /\ Len(a.v) = Len(b.v)
        /\ \A i \in 1..Len(a.v) : DeepEqual(a.v[i], b.v[i])
    ELSE IF a.t = "obj" THEN
        /\ {a.v[i][1] : i \in 1..Len(a.v)} = {b.v[j][1] : j \in 1..Len(b.v)}
        /\ Len(a.v) = Len(b.v)
        /\ \A i \in 1..Len(a.v), j \in 1..Len(b.v) :
               a.v[i][1] = b.v[j][1] => DeepEqual(a.v[i][2], b.v[j][2])
    ELSE a.v = b.v

RoundTripDone == pc = "done" /\ op = "encodeState"

\* C5: for every value built from strings (non-ASCII included), finite numbers,
\* booleans, null, arrays and objects, decodeState(encodeState(v)) is deep-equal
\* to v, except that -0 comes back as 0 and undefined-valued fields are dropped.
C5_RoundTrip ==
    /\ pc = "encoded" => ret.t = "token"
    /\ RoundTripDone => (ret.t = "ok" /\ DeepEqual(ret.v, Normalize(args)))

C5_Witness ==
    /\ RoundTripDone
    /\ args = Obj(<< <<(<<233, 34>>), JStr(<<55356, 57101>>)>>, <<(<<97>>), Undefined>> >>)
    /\ ret = Ok(Obj(<< <<(<<233, 34>>), JStr(<<55356, 57101>>)>> >>))

IsBase64Url(c) ==
    \/ (c >= 65 /\ c <= 90) \/ (c >= 97 /\ c <= 122) \/ (c >= 48 /\ c <= 57)
    \/ c = 45 \/ c = 95

DecodeDone == pc = "done" /\ op = "decodeState"

\* C6: decodeState throws, and returns no value, for every token that contains
\* a character outside [A-Za-z0-9_-].
C6_RejectsForeignCharacters ==
    (DecodeDone /\ \E i \in 1..Len(args) : ~IsBase64Url(args[i])) => ret.t = "throw"

EncodeDone == pc = "encoded" /\ op = "encodeState" /\ ret.t = "token"

\* C17: for every value that encodeState accepts, its output consists only of
\* characters of [A-Za-z0-9_-]: it never contains '+', '/' or '='.
C17_UrlSafeAlphabet ==
    EncodeDone =>
        /\ \A i \in 1..Len(ret.v) : IsBase64Url(ret.v[i])
        /\ \A i \in 1..Len(ret.v) : ret.v[i] \notin {43, 47, 61}

\* a token in which '+' (or '/') was replaced and from which padding was removed
C17_Witness ==
    /\ EncodeDone
    /\ \E i \in 1..Len(ret.v) : ret.v[i] \in {45, 95}
    /\ Len(ret.v) % 4 = 2

(***************************************************************************)
(* Privacy monitor (privacyMonitor.js initializePrivacyMonitoring).        *)
(* A host name is the sequence of its labels; a URL text is absolute       *)
(* ("https://host/..."), scheme-relative ("//host/...") or a path; photo   *)
(* tells whether the text contains 'data:image' or 'base64'.               *)
(***************************************************************************)
OpenMeteoHost == <<"api", "open-meteo", "com">>
PageHost == <<"pocketrescue", "example">>          \* window.location.hostname

UrlText(form, host, photo) == [form |-> form, host |-> host, photo |-> photo]

\* text.includes(part), on whole labels
Includes(text, part) ==
    \E i \in 1..(Len(text) - Len(part) + 1) : SubSeq(text, i, i + Len(part) - 1) = part

\* new URL(url) with no base: only an absolute URL text parses
Parses(url) == url.t = "url" /\ url.v.form = "absolute"

\* const url = typeof resource === 'string' ? resource : resource.url
UrlOf(resource) ==
    IF resource.kind \in {"string", "Request"} THEN [t |-> "url", v |-> resource.url]
    ELSE Undefined      \* a URL object has no url property

\* verifyOpenMeteoRequest throws iff the text contains photo data
verifyOpenMeteoRequest(url) == IF url.v.photo THEN "throws" ELSE "returns"

verifyNetworkRequest(url) ==
    IF ~Parses(url) THEN "returns"      \* 'Relative URLs are safe (same origin)'
    ELSE LET domain == url.v.host
             isAllowed == Includes(domain, OpenMeteoHost)
         IN  IF ~isAllowed /\ ~Includes(domain, PageHost) THEN "throws"
             ELSE IF Includes(domain, OpenMeteoHost) THEN verifyOpenMeteoRequest(url)
             ELSE "returns"

\* the host the browser's own fetch sends the request to
TargetHost(resource) == IF resource.url.form = "path" THEN PageHost ELSE resource.url.host

Invoked(resource) == [t |-> "invoked", host |-> TargetHost(resource)]

\* the hosts of the requests: the two legitimate ones, a foreign one, and
\* foreign ones whose name contains a legitimate one
RequestHosts ==
    {OpenMeteoHost, PageHost, <<"tracker", "example">>,
     <<"api", "open-meteo", "com", "tracker", "example">>,
     <<"pocketrescue", "example", "tracker", "net">>}

Resources ==
    {[kind |-> k, url |-> UrlText(f, h, p)] :
         k \in {"string", "Request", "URL"}, f \in {"absolute", "schemeRelative"},
         h \in RequestHosts, p \in BOOLEAN}
    \cup {[kind |-> k, url |-> UrlText("path", <<>>, p)] :
              k \in {"string", "Request"}, p \in BOOLEAN}

InitPrivacy ==
    /\ pc = "loaded"
    /\ op = "App"
    /\ args = <<>>
    /\ ret = Pending
    /\ Quiescent

initializePrivacyMonitoring ==
    /\ pc = "loaded"
    /\ op \in {"App", "fetch"}
    /\ pc' = "monitoring"
    /\ op' = "initializePrivacyMonitoring"
    /\ UNCHANGED <<args, ret, slot, clock, lastLive, history>>

\* window.fetch(resource): the browser's fetch before the monitor is
\* installed, the monitor's wrapper after
WindowFetch(resource) ==
    /\ pc \in {"loaded", "monitoring"}
    /\ op \in {"App", "fetch", "initializePrivacyMonitoring"}
    /\ op' = "fetch"
    /\ args' = resource
    /\ ret' = IF pc = "monitoring" /\ verifyNetworkRequest(UrlOf(resource)) = "throws"
              THEN Throw("Privacy violation")
              ELSE Invoked(resource)
    /\ UNCHANGED <<pc, slot, clock, lastLive, history>>

NextPrivacy == initializePrivacyMonitoring \/ \E resource \in Resources : WindowFetch(resource)

SpecPrivacy == InitPrivacy /\ [][NextPrivacy]_vars

MonitoredFetchDone == pc = "monitoring" /\ op = "fetch"

\* C24: after initializePrivacyMonitoring, every window.fetch call whose URL
\* host is neither exactly api.open-meteo.com nor the page's own host throws
\* before the original fetch is invoked; the original fetch is only ever
\* invoked for api.open-meteo.com or the page's own host, and never for an
\* Open-Meteo URL that contains photo data.
C24_OnlyWhitelistedHosts ==
    MonitoredFetchDone =>
        /\ TargetHost(args) \notin {OpenMeteoHost, PageHost} => ret.t = "throw"
        /\ ret.t = "invoked" =>
               /\ ret.host \in {OpenMeteoHost, PageHost}
               /\ ~(ret.host = OpenMeteoHost /\ args.url.photo)

(***************************************************************************)
(* Service worker (sw.js).  A URL is an origin, the sequence of the pieces *)
(* of its text up to the path, and a path; slot holds the two caches the   *)
(* install handler fills and history the fetch events in order of arrival. *)
(***************************************************************************)
MaxEvents == 2

WorkerOrigin == <<"https://", "pocketrescue", ".example">>     \* self.location.origin

Url(origin, path) == [origin |-> origin, path |-> path]

\* request.url
Href(url) == url.origin \o <<url.path>>

StartsWith(text, prefix) ==
    Len(prefix) <= Len(text) /\ SubSeq(text, 1, Len(prefix)) = prefix

IndexHtml == Url(WorkerOrigin, "/index.html")

RequestUrls ==
    {IndexHtml, Url(WorkerOrigin, "/app.js"),
     Url(<<"https://", "tracker", ".example">>, "/pixel.gif"),
     Url(<<"https://", "pocketrescue", ".example", ".tracker", ".net">>, "/pixel.gif")}

Requests ==
    {[method |-> m, url |-> u, html |-> h] :
         m \in {"GET", "POST"}, u \in RequestUrls, h \in BOOLEAN}

NoResponse == [t |-> "none", status |-> 0, version |-> 0]

Response(status, version) == [t |-> "response", status |-> status, version |-> version]

NetworkError == [t |-> "error", status |-> 0, version |-> 0]

\* what fetch(request) settles with; a rejected fetch is NetworkError
NetworkOutcomes == {NetworkError, Response(200, 1), Response(200, 2), Response(404, 1)}

EmptyCache == [key \in RequestUrls |-> NoResponse]

\* cache.addAll(urlsToCache) of the install handler
Installed == [EmptyCache EXCEPT ![IndexHtml] = Response(200, 0)]

\* caches.match(request): the caches in the order of their creation
Match(caches, url) ==
    IF caches.static[url] # NoResponse THEN caches.static[url] ELSE caches.dynamic[url]

\* caches.open(CACHE_NAME).then(cache => cache.put(request, responseToCache))
Put(caches, url, response) == [caches EXCEPT !.dynamic[url] = response]

\* 'Only cache successful responses'
Cacheable(response) == response.t = "response" /\ response.status = 200

InitWorker ==
    /\ pc = "activated"
    /\ op = "install"
    /\ args = <<>>
    /\ ret = Pending
    /\ slot \in {[static |-> s, dynamic |-> d] : s \in {EmptyCache, Installed},
                                                 d \in {EmptyCache, Installed}}
    /\ clock = 0
    /\ lastLive = NoForecast
    /\ history = <<>>

\* the fetch event listener up to event.respondWith
FetchEvent(request) ==
    /\ pc = "activated"
    /\ Len(history) < MaxEvents
    /\ op' = "fetch"
    /\ history' = Append(history,
           [request |-> request,
            stage |-> IF request.method # "GET" THEN "skipped"
                      ELSE IF ~StartsWith(Href(request.url), WorkerOrigin) THEN "skipped"
                      ELSE "matching",
            answer |-> NoResponse])
    /\ UNCHANGED <<pc, args, ret, slot, clock, lastLive>>

\* caches.match(request) resolves
MatchResolves(e) ==
    /\ pc = "activated"
    /\ e \in 1..Len(history)
    /\ history[e].stage = "matching"
    /\ LET cachedResponse == Match(slot, history[e].request.url)
       IN  history' = [history EXCEPT
               ![e].stage = IF cachedResponse # NoResponse THEN "revalidating" ELSE "fetching",
               ![e].answer = cachedResponse]
    /\ op' = "match"
    /\ UNCHANGED <<pc, args, ret, slot, clock, lastLive>>

\* fetch(request) of fetchAndUpdateCache settles
BackgroundSettles(e, outcome) ==
    /\ pc = "activated"
    /\ e \in 1..Len(history)
    /\ history[e].stage = "revalidating"
    /\ history' = [history EXCEPT ![e].stage = "done"]
    /\ slot' = IF Cacheable(outcome) THEN Put(slot, history[e].request.url, outcome) ELSE slot
    /\ op' = "fetchAndUpdateCache"
    /\ UNCHANGED <<pc, args, ret, clock, lastLive>>

\* fetch(request) of the handler settles when nothing was cached
NetworkSettles(e, outcome) ==
    /\ pc = "activated"
    /\ e \in 1..Len(history)
    /\ history[e].stage = "fetching"
    /\ LET request == history[e].request
           offline == IF request.html /\ Match(slot, IndexHtml) # NoResponse
                      THEN Match(slot, IndexHtml) ELSE NetworkError
       IN  /\ history' = [history EXCEPT
                   ![e].stage = "done",
                   ![e].answer = IF outcome = NetworkError THEN offline ELSE outcome]
           /\ slot' = IF Cacheable(outcome) THEN Put(slot, request.url, outcome) ELSE slot
    /\ op' = "respondWith"
    /\ UNCHANGED <<pc, args, ret, clock, lastLive>>

NextWorker ==
    \/ \E request \in Requests : FetchEvent(request)
    \/ \E e \in 1..MaxEvents :
           \/ MatchResolves(e)
           \/ \E outcome \in NetworkOutcomes :
                  BackgroundSettles(e, outcome) \/ NetworkSettles(e, outcome)

SpecWorker == InitWorker /\ [][NextWorker]_vars

SameOriginGet(request) == request.method = "GET" /\ request.url.origin = WorkerOrigin

\* C26: a same-origin GET request whose response is cached is answered with
\* the cached response when the cache lookup resolves, and that answer does not
\* change whatever the network does afterwards; a cache entry is only replaced
\* by a response with status 200; a request that is not a GET or not
\* same-origin is never answered by the worker.
C26_StaleWhileRevalidate ==
    [][\A e \in 1..Len(history') :
          /\ (/\ e <= Len(history)
              /\ history[e].stage = "matching" /\ history'[e].stage # "matching"
              /\ SameOriginGet(history[e].request)
              /\ Match(slot, history[e].request.url) # NoResponse) =>
                 history'[e].answer = Match(slot, history[e].request.url)
          /\ (e <= Len(history) /\ history[e].answer # NoResponse) =>
                 history'[e].answer = history[e].answer
          /\ \A key \in RequestUrls :
                 /\ slot'.static[key] = slot.static[key]
                 /\ slot'.dynamic[key] # slot.dynamic[key] => slot'.dynamic[key].status = 200
          /\ ~SameOriginGet(history'[e].request) => history'[e].answer = NoResponse]_vars

(***************************************************************************)
(* Share URL and QR code of the card (Card component) and the effect of    *)
(* App that loads a shared state.  The keys are the code units of the      *)
(* property names.                                                         *)
(***************************************************************************)
Key_photo == <<112, 104, 111, 116, 111>>
Key_cropType == <<99, 114, 111, 112, 84, 121, 112, 101>>
Key_score == <<115, 99, 111, 114, 101>>
Key_riskSummary == <<114, 105, 115, 107, 83, 117, 109, 109, 97, 114, 121>>
Key_interventions == <<105, 110, 116, 101, 114, 118, 101, 110, 116, 105, 111, 110, 115>>
Key_geolocation == <<103, 101, 111, 108, 111, 99, 97, 116, 105, 111, 110>>
Key_timestamp == <<116, 105, 109, 101, 115, 116, 97, 109, 112>>
Key_lat == <<108, 97, 116>>
Key_lon == <<108, 111, 110>>
Key_action == <<97, 99, 116, 105, 111, 110>>
Key_timing == <<116, 105, 109, 105, 110, 103>>

\* obj[key] of a parsed value
Field(value, key) ==
    IF value.t = "obj" /\ \E k \in 1..Len(value.v) : value.v[k][1] = key
    THEN value.v[CHOOSE k \in 1..Len(value.v) : value.v[k][1] = key][2]
    ELSE Undefined

Truthy(value) ==
    IF value.t \in {"undef", "null", "negzero"} THEN FALSE
    ELSE IF value.t = "bool" THEN value.v
    ELSE IF value.t = "num" THEN value.v # 0
    ELSE IF value.t = "jstr" THEN value.v # <<>>
    ELSE TRUE

\* btoa(jsonString).replace(/\+/g, '-').replace(/\//g, '_').replace(/=/g, '')
CardToken(state) ==
    LET base64 == btoa(Stringify(state))
    IN  IF base64.t = "throw" THEN base64
        ELSE [t |-> "token",
              v |-> RemoveChar(MapChars(MapChars(base64.v, 43, 45), 47, 95), 61)]

generateShareURL(props) ==
    CardToken(Obj(<< <<Key_photo, props.photo>>, <<Key_cropType, props.cropType>>,
                     <<Key_score, props.score>>, <<Key_riskSummary, props.riskSummary>>,
                     <<Key_interventions, props.interventions>>,
                     <<Key_geolocation, props.geolocation>>,
                     <<Key_timestamp, props.timestamp>> >>))

generateQRData(props) ==
    CardToken(Obj(<< <<Key_cropType, props.cropType>>, <<Key_score, props.score>>,
                     <<Key_geolocation, props.geolocation>>,
                     <<Key_timestamp, props.timestamp>> >>))

\* new URLSearchParams(window.location.search).get('state'): '+' reads as a space
SearchParam(token) == MapChars(token, 43, 32)

\* the effect of App that checks for a share URL, in a fresh instance
LoadSharedState(token) ==
    LET encodedState == SearchParam(token)
        decodedState == decodeState(encodedState)
        landing == [currentStep |-> "landing", cardData |-> Null]
    IN  IF encodedState = <<>> THEN landing
        ELSE IF decodedState.t = "throw" THEN landing
        ELSE IF decodedState.v.t \in {"null", "undef"} THEN landing    \* TypeError, caught
        ELSE IF Truthy(Field(decodedState.v, Key_photo))
             THEN [currentStep |-> "card", cardData |-> decodedState.v]
        ELSE landing

\* texts of a card: plain, with a line break, with a Latin-1 letter, with a
\* character above U+00FF
CardTexts == {JStr(<<97>>), JStr(<<97, 10>>), JStr(<<233>>), JStr(<<8364>>)}

CardInterventions ==
    {Arr(<<>>)} \cup
    {Arr(<< Obj(<< <<Key_action, a>>, <<Key_timing, JStr(<<49>>)>> >>) >>) : a \in CardTexts}

CardLocations ==
    {Obj(<< <<Key_lat, Num(52)>>, <<Key_lon, Num(-1)>> >>),
     Obj(<< <<Key_lat, Num(0)>>, <<Key_lon, Num(0)>> >>)}

ShownCards ==
    [photo : {JStr(<<100>>)}, cropType : {JStr(<<119>>)}, score : {Num(0), Num(65), Num(100)},
     riskSummary : CardTexts, interventions : CardInterventions,
     geolocation : CardLocations, timestamp : {JStr(<<84>>)}]

InitShare ==
    /\ pc = "card"
    /\ op = "Card"
    /\ args \in ShownCards
    /\ ret = Pending
    /\ Quiescent

\* the Card component renders: const shareURL = generateShareURL();
\* const qrData = generateQRData()
RenderCard ==
    /\ pc = "card"
    /\ op = "Card"
    /\ ret' = [shareURL |-> generateShareURL(args), qrData |-> generateQRData(args)]
    /\ pc' = "rendered"
    /\ UNCHANGED <<op, args, slot, clock, lastLive, history>>

Rendered == pc = "rendered" /\ ret.shareURL.t = "token" /\ ret.qrData.t = "token"

\* the copied share URL is opened in a fresh app instance
OpenShareURL ==
    /\ Rendered
    /\ op' = "shareURL"
    /\ ret' = LoadSharedState(ret.shareURL.v)
    /\ pc' = "opened"
    /\ UNCHANGED <<args, slot, clock, lastLive, history>>

\* the URL of the scanned QR code is opened in a fresh app instance
OpenQRCode ==
    /\ Rendered
    /\ op' = "qrData"
    /\ ret' = LoadSharedState(ret.qrData.v)
    /\ pc' = "opened"
    /\ UNCHANGED <<args, slot, clock, lastLive, history>>

NextShare == RenderCard \/ OpenShareURL \/ OpenQRCode

SpecShare == InitShare /\ [][NextShare]_vars

\* the seven fields of the card as one object
CardFields(props) ==
    Obj(<< <<Key_photo, props.photo>>, <<Key_cropType, props.cropType>>,
           <<Key_score, props.score>>, <<Key_riskSummary, props.riskSummary>>,
           <<Key_interventions, props.interventions>>,
           <<Key_geolocation, props.geolocation>>,
           <<Key_timestamp, props.timestamp>> >>)

Reconstructed == ret.currentStep = "card" /\ DeepEqual(ret.cardData, CardFields(args))

\* C22: for every card shown, opening the URL of the card's Share URL action in
\* a fresh app instance reaches the card step with card data deep-equal to the
\* seven fields of the card.
C22_ShareUrlReconstructs == (pc = "opened" /\ op = "shareURL") => Reconstructed

\* C23: the QR code of the card encodes the same URL as the Share URL action,
\* and opening the QR code's URL reaches the card step with the card's data.
C23_QrEncodesShareUrl ==
    /\ Rendered => ret.qrData = ret.shareURL
    /\ (pc = "opened" /\ op = "qrData") => Reconstructed

(***************************************************************************)
(* Workflow of the App component and of the Processing screen.  args holds *)
(* the state of App, ret the state of the mounted Processing component,    *)
(* history the asynchronous work in flight, clock the number of Processing *)
(* instances mounted so far, pc the last handler a user action ran and op  *)
(* the last step taken.  The timestamp of a card is left out.              *)
(***************************************************************************)
MaxMounts == 2
MaxInFlight == 2

Photo(n) == [t |-> "photo", v |-> n]
Photos == {Photo(1), Photo(2)}
Locations == {[lat |-> 52, lon |-> -1], [lat |-> -34, lon |-> 151]}
ForecastsReturned ==
    {[precipitationMm |-> Num(20), source |-> "openMeteo"],
     [precipitationMm |-> Num(450), source |-> "cached"]}

\* what processImage computes from the photo: the mean NDVI-proxy index (in
\* hundredths) and the global score
NdviMean(photo) == IF photo = Photo(1) THEN Num(10) ELSE Num(40)
GlobalScore(photo) == IF photo = Photo(1) THEN Num(20) ELSE Num(80)

Unmounted == [mounted |-> FALSE, instance |-> 0, isProcessing |-> FALSE,
              error |-> FALSE, score |-> Null]

\* useState(!precomputedResults) and the precomputedResults branch of the effect
Mount(precomputedResults, instance) ==
    [mounted |-> TRUE, instance |-> instance, isProcessing |-> precomputedResults = Null,
     error |-> FALSE,
     score |-> IF precomputedResults = Null THEN Null ELSE precomputedResults.globalScore]

Task(kind, app, results, shown) ==
    [kind |-> kind, instance |-> clock + 1, photo |-> app.selectedPhoto,
     cropType |-> app.selectedCrop, geolocation |-> app.geolocation,
     results |-> results, shown |-> shown]

RemoveAt(tasks, k) == SubSeq(tasks, 1, k - 1) \o SubSeq(tasks, k + 1, Len(tasks))

UnableSummary ==
    Template("Unable to compute risk assessment.", "Please check your connection.",
             "Try again later.")

\* the card of the try block of handleProcessingComplete
AssessedCard(task, forecast) ==
    LET riskAssessment ==
            computeRiskAssessment(task.results.ndviIndices, forecast.precipitationMm,
                                  task.cropType)
    IN  [photo |-> task.photo, cropType |-> task.cropType,
         score |-> task.results.globalScore, riskSummary |-> riskAssessment.summary,
         interventions |-> riskAssessment.interventions, geolocation |-> task.geolocation]

\* the card of the catch block of handleProcessingComplete
FallbackCard(task) ==
    [photo |-> task.photo, cropType |-> task.cropType,
     score |-> task.results.globalScore, riskSummary |-> UnableSummary,
     interventions |->
         Arr(<<[action |-> <<"Monitor field conditions">>, timing |-> <<"daily">>],
               [action |-> <<"Scout for pest and disease">>, timing |-> <<"within 3 days">>],
               [action |-> <<"Plan management actions">>, timing |-> <<"within 1 week">>]>>),
     geolocation |-> task.geolocation]

InitApp ==
    /\ pc = "App"
    /\ op = "App"
    /\ args = [currentStep |-> "landing", selectedCrop |-> "", selectedPhoto |-> Null,
               geolocation |-> Null, cardData |-> Null, processingResults |-> Null,
               isDemoMode |-> FALSE]
    /\ ret = Unmounted
    /\ Quiescent

UserAction(handler) ==
    /\ pc' = handler
    /\ op' = handler
    /\ UNCHANGED <<slot, lastLive>>

handleCropSelected(cropType) ==
    /\ args.currentStep = "landing"
    /\ args' = [args EXCEPT !.selectedCrop = cropType]
    /\ UserAction("handleCropSelected")
    /\ UNCHANGED <<ret, clock, history>>

handleCameraClick ==
    /\ args.currentStep = "landing"
    /\ args' = [args EXCEPT !.currentStep = "camera"]
    /\ UserAction("handleCameraClick")
    /\ UNCHANGED <<ret, clock, history>>

handlePhotoSelected(photoDataURI) ==
    /\ args.currentStep = "camera"
    /\ args' = [args EXCEPT !.selectedPhoto = photoDataURI, !.processingResults = Null,
                            !.cardData = Null, !.currentStep = "geolocation"]
    /\ UserAction("handlePhotoSelected")
    /\ UNCHANGED <<ret, clock, history>>

handleCameraCancel ==
    /\ args.currentStep = "camera"
    /\ args' = [args EXCEPT !.processingResults = Null, !.cardData = Null,
                            !.currentStep = "landing"]
    /\ UserAction("handleCameraCancel")
    /\ UNCHANGED <<ret, clock, history>>

handleSampleImageSelected(photoDataURI, suggestedCrop) ==
    /\ args.currentStep = "landing"
    /\ args' = [args EXCEPT !.selectedPhoto = photoDataURI, !.selectedCrop = suggestedCrop,
                            !.processingResults = Null, !.cardData = Null,
                            !.currentStep = "geolocation"]
    /\ UserAction("handleSampleImageSelected")
    /\ UNCHANGED <<ret, clock, history>>

\* the Processing screen mounts and its effect starts processImage
handleGeolocationConfirmed(location) ==
    /\ args.currentStep = "geolocation"
    /\ clock < MaxMounts
    /\ Len(history) < MaxInFlight
    /\ args' = [args EXCEPT !.geolocation = location, !.processingResults = Null,
                            !.currentStep = "processing"]
    /\ ret' = Mount(Null, clock + 1)
    /\ clock' = clock + 1
    /\ history' = Append(history, Task("processImage", args', Null, Null))
    /\ UserAction("handleGeolocationConfirmed")

handleGeolocationCancel ==
    /\ args.currentStep = "geolocation"
    /\ args' = [args EXCEPT !.processingResults = Null, !.currentStep = "camera"]
    /\ UserAction("handleGeolocationCancel")
    /\ UNCHANGED <<ret, clock, history>>

\* Cancel or Back on the Processing screen
handleProcessingCancel ==
    /\ args.currentStep = "processing"
    /\ args' = [args EXCEPT !.currentStep = "geolocation"]
    /\ ret' = Unmounted
    /\ UserAction("handleProcessingCancel")
    /\ UNCHANGED <<clock, history>>

\* Back on the card: the Processing screen mounts with the kept results
handleCardBack ==
    /\ args.currentStep = "card"
    /\ args.cardData # Null
    /\ clock < MaxMounts
    /\ args.processingResults = Null => Len(history) < MaxInFlight
    /\ args' = [args EXCEPT !.currentStep = "processing"]
    /\ ret' = Mount(args.processingResults, clock + 1)
    /\ clock' = clock + 1
    /\ history' = IF args.processingResults = Null
                  THEN Append(history, Task("processImage", args, Null, Null))
                  ELSE history
    /\ UserAction("handleCardBack")

\* the 'Proceed to Card' button; shown is the card on display before Back
\* when the screen shows its results, recorded for the properties
ProceedToCard ==
    /\ args.currentStep = "processing"
    /\ ret.mounted /\ ~ret.isProcessing /\ ~ret.error
    /\ Len(history) < MaxInFlight
    /\ history' = Append(history,
           [Task("handleProcessingComplete", args,
                 [ndviIndices |-> Null, globalScore |-> ret.score],
                 IF args.processingResults # Null THEN args.cardData ELSE Null)
            EXCEPT !.instance = ret.instance])
    /\ UserAction("ProceedToCard")
    /\ UNCHANGED <<args, ret, clock>>

\* await downsampleImage(photo, 200) settles: processImage runs on to its
\* call of onProcessingComplete, which runs on to await fetchForecast(...)
DownsampleSettles(k, ok) ==
    /\ k \in 1..Len(history)
    /\ history[k].kind = "processImage"
    /\ LET task == history[k]
           results == [ndviIndices |-> NdviMean(task.photo),
                       globalScore |-> GlobalScore(task.photo)]
           own == ret.mounted /\ ret.instance = task.instance
       IN  /\ ret' = IF ~own THEN ret
                     ELSE IF ok THEN [ret EXCEPT !.isProcessing = FALSE,
                                                 !.score = results.globalScore]
                     ELSE [ret EXCEPT !.isProcessing = FALSE, !.error = TRUE]
           /\ history' = IF ok
                         THEN [history EXCEPT ![k].kind = "handleProcessingComplete",
                                              ![k].results = results]
                         ELSE RemoveAt(history, k)
    /\ op' = "processImage"
    /\ UNCHANGED <<pc, args, slot, clock, lastLive>>

\* await fetchForecast(...) settles: handleProcessingComplete runs to its end;
\* results.ndviIndices.length throws a TypeError when ndviIndices is null
ForecastSettles(k, forecast) ==
    /\ k \in 1..Len(history)
    /\ history[k].kind = "handleProcessingComplete"
    /\ LET task == history[k]
           newCardData == IF task.results.ndviIndices = Null THEN FallbackCard(task)
                          ELSE AssessedCard(task, forecast)
       IN  args' = [args EXCEPT !.isDemoMode = @ \/ forecast.source = "cached",
                                !.processingResults = task.results,
                                !.cardData = newCardData,
                                !.currentStep = "card"]
    /\ ret' = Unmounted
    /\ history' = RemoveAt(history, k)
    /\ op' = "handleProcessingComplete"
    /\ UNCHANGED <<pc, slot, clock, lastLive>>

NextApp ==
    \/ handleCropSelected("wheat")
    \/ handleCameraClick
    \/ \E photo \in Photos : handlePhotoSelected(photo)
    \/ handleCameraCancel
    \/ \E photo \in Photos : handleSampleImageSelected(photo, "maize")
    \/ \E location \in Locations : handleGeolocationConfirmed(location)
    \/ handleGeolocationCancel
    \/ handleProcessingCancel
    \/ handleCardBack
    \/ ProceedToCard
    \/ \E k \in 1..MaxInFlight, ok \in BOOLEAN : DownsampleSettles(k, ok)
    \/ \E k \in 1..MaxInFlight, forecast \in ForecastsReturned : ForecastSettles(k, forecast)

SpecApp == InitApp /\ [][NextApp]_vars

SameAssessment(card, other) ==
    /\ card.score = other.score
    /\ card.riskSummary = other.riskSummary
    /\ card.interventions = other.interventions

\* C27: when 'Proceed to Card' was pressed on the Processing screen reached by
\* Back from a card with a computed risk assessment, and that card is still
\* the card data, the card shown next has the same score, riskSummary and
\* interventions; it is not the 'Unable to compute risk assessment' card.
C27_BackAndProceedKeepsCard ==
    [][\A k \in 1..Len(history) :
          (/\ history[k].kind = "handleProcessingComplete"
           /\ op' = "handleProcessingComplete"
           /\ history' = RemoveAt(history, k)
           /\ history[k].shown # Null
           /\ history[k].shown.riskSummary # UnableSummary
           /\ args.cardData = history[k].shown) =>
              /\ args'.currentStep = "card"
              /\ SameAssessment(args'.cardData, history[k].shown)]_vars

\* C28: after the user has cancelled on the Processing screen, and until the
\* next user action, no completion of image processing or of the forecast
\* fetch changes the workflow step or the card data.
C28_CancelStopsWorkflow ==
    [][(pc = "handleProcessingCancel"
            /\ op' \in {"processImage", "handleProcessingComplete"}) =>
           /\ args'.currentStep = "geolocation"
           /\ args'.cardData = args.cardData]_vars

====
